---- MODULE Spec2Model ----
(***************************************************************************)
(* Model of the real-time transport of wf-market (src/src/client/ws/mod.rs) *)
(* : Route, Router, the reconnect supervisor spawned by                     *)
(* WsClientBuilder::build, the read and write tasks of a connection epoch   *)
(* and the WsClient send operations.                                        *)
(* Client::new, login and refresh of the HTTP session                       *)
(* (src/src/client/auth.rs, src/src/client/mod.rs) follow.                  *)
(*                                                                          *)
(* Strings are sequences of tokens.  The delimiters '|' and ':' are tokens  *)
(* of their own; every other token is a delimiter-free piece of text, so    *)
(* str::find('|') and str::find(':') are the first index holding that       *)
(* token.  No piece used below is a concatenation of other pieces, so two   *)
(* strings are equal exactly when their token sequences are equal.          *)
(***************************************************************************)
EXTENDS Integers, Sequences, FiniteSets

\* ------------------------------------------------------------------ bounds
\* Connection epochs opened in one run of the supervisor.
MaxEpochs == 2
\* Caller/handler messages accepted by one epoch's channel.
MaxQueue == 1
\* register_callback calls made on one builder.
MaxRegs == 2
\* Distinct callbacks a caller may hand to register_callback.
NumHandlers == 2
\* Text frames a socket holds that the read task has not taken yet.
MaxInbox == 2
\* Tokens of a topic string handed to Route::parse in the runs of Route alone.
MaxLen == 4

Epochs == 1..MaxEpochs
HandlerIds == 1..NumHandlers

\* ----------------------------------------------------------------- strings
PIPE == "|"
COLON == ":"

\* Option<String>
None == [some |-> FALSE, val |-> <<>>]
Some(v) == [some |-> TRUE, val |-> v]

\* str::find(c): index of the first token equal to c, 0 when there is none.
Find(s, c) ==
  IF \E i \in 1..Len(s) : s[i] = c
  THEN CHOOSE i \in 1..Len(s) : s[i] = c /\ \A j \in 1..(i - 1) : s[j] # c
  ELSE 0

SIGNIN == <<"cmd/auth/signIn">>
CONNECTED == <<"internal/connected">>
DISCONNECTED == <<"internal/disconnected">>
AUTH_CONNECTED == <<"internal/auth_connected">>
ORDERS_NEW == <<"orders/new">>

\* A plausible slip in Route::parse: a string without the protocol delimiter
\* is taken as a path with an empty protocol.
ParseDefaultsProtocol(route_str) ==
  LET pipe_pos == Find(route_str, PIPE)
      path_and_param == SubSeq(route_str, pipe_pos + 1, Len(route_str))
      colon_pos == Find(path_and_param, COLON)
  IN IF colon_pos # 0
     THEN [ok |-> TRUE, err |-> "", detail |-> <<>>,
           route |-> [protocol |-> SubSeq(route_str, 1, pipe_pos - 1),
                      path |-> SubSeq(path_and_param, 1, colon_pos - 1),
                      parameter |-> Some(SubSeq(path_and_param, colon_pos + 1,
                                                Len(path_and_param)))]]
     ELSE [ok |-> TRUE, err |-> "", detail |-> <<>>,
           route |-> [protocol |-> SubSeq(route_str, 1, pipe_pos - 1),
                      path |-> path_and_param, parameter |-> None]]

\* Route::parse
Parse(route_str) ==
  LET pipe_pos == Find(route_str, PIPE) IN
  IF pipe_pos = 0
  THEN [ok |-> FALSE, err |-> "InvalidPath", detail |-> route_str,
        route |-> [protocol |-> <<>>, path |-> <<>>, parameter |-> None]]
  ELSE
    LET protocol == SubSeq(route_str, 1, pipe_pos - 1)
        path_and_param == SubSeq(route_str, pipe_pos + 1, Len(route_str))
        colon_pos == Find(path_and_param, COLON)
    IN IF colon_pos # 0
       THEN [ok |-> TRUE, err |-> "", detail |-> <<>>,
             route |-> [protocol |-> protocol,
                        path |-> SubSeq(path_and_param, 1, colon_pos - 1),
                        parameter |-> Some(SubSeq(path_and_param, colon_pos + 1,
                                                  Len(path_and_param)))]]
       ELSE [ok |-> TRUE, err |-> "", detail |-> <<>>,
             route |-> [protocol |-> protocol, path |-> path_and_param,
                        parameter |-> None]]

\* A plausible slip in Route::to_string: an empty parameter is left out
\* together with its delimiter.
ToStringDropsEmptyParameter(route) ==
  IF route.parameter.some /\ route.parameter.val # <<>>
  THEN route.protocol \o <<PIPE>> \o route.path \o <<COLON>> \o route.parameter.val
  ELSE route.protocol \o <<PIPE>> \o route.path

\* Route::to_string
ToString(route) ==
  IF route.parameter.some
  THEN route.protocol \o <<PIPE>> \o route.path \o <<COLON>> \o route.parameter.val
  ELSE route.protocol \o <<PIPE>> \o route.path

\* Route::base_path
BasePath(route) == route.path

\* Route::full_path
FullPath(route) ==
  IF route.parameter.some
  THEN route.path \o <<COLON>> \o route.parameter.val
  ELSE route.path

\* ---------------------------------------------------------------- messages
\* WsMessage: the route and what the payload carries (ids are not modelled).
Token == "session-token"
DeviceId == "device-id"

Msg(route, payload) == [route |-> route, payload |-> payload]

\* WsMessage::connect
ConnectMsg == Msg(<<"@internal", PIPE>> \o CONNECTED, "status")

\* WsMessage::disconnect
DisconnectMsg == Msg(<<"@internal", PIPE>> \o DISCONNECTED, "reason")

\* The message handle_internal_route synthesizes for the sign-in acknowledgement.
AuthConnectedMsg == Msg(<<"@internal", PIPE>> \o AUTH_CONNECTED, "true")

\* The request build() sends after the connected event: token and device id.
AuthMsg == Msg(<<"@wfm", PIPE>> \o SIGNIN, <<Token, DeviceId>>)

\* What a callback sends through the MessageSender it is handed.
HandlerMsg == Msg(<<"@wfm", PIPE>> \o ORDERS_NEW, "from-handler")

\* ------------------------------------------------------------------ router
\* Router::new
EmptyRoutes == [k \in {} |-> 0]

\* Router::get_reserved_paths
GetReservedPaths == {SIGNIN}

\* Router::is_path_reserved
IsPathReserved(path) == path \in GetReservedPaths

\* A plausible slip in register: insert without the contains_key check.
RegisterOverwriting(table, path, callback) ==
  IF IsPathReserved(path)
  THEN [result |-> "ReservedPath", routes |-> table]
  ELSE [result |-> "Ok",
        routes |-> [k \in (DOMAIN table) \cup {path} |->
                      IF k = path THEN callback ELSE table[k]]]

\* A plausible slip in register: the reserved-path check is missing.
RegisterNoReservedCheck(table, path, callback) ==
  IF path \in DOMAIN table
  THEN [result |-> "AlreadyRegistered", routes |-> table]
  ELSE [result |-> "Ok",
        routes |-> [k \in (DOMAIN table) \cup {path} |->
                      IF k = path THEN callback ELSE table[k]]]

\* Router::register
Register(table, path, callback) ==
  IF IsPathReserved(path)
  THEN [result |-> "ReservedPath", routes |-> table]
  ELSE IF path \in DOMAIN table
  THEN [result |-> "AlreadyRegistered", routes |-> table]
  ELSE [result |-> "Ok",
        routes |-> [k \in (DOMAIN table) \cup {path} |->
                      IF k = path THEN callback ELSE table[k]]]

\* One callback invocation: the key it was found under, the callback, and the
\* message and route it is passed.
Call(key, callback, message, route) ==
  [key |-> key, handler |-> callback, msg |-> message, route |-> route]

\* A plausible slip in handle_internal_route: the parameter of the sign-in
\* answer is not looked at.
HandleInternalRouteAnyParameter(table, route, message) ==
  IF BasePath(route) = SIGNIN /\ AUTH_CONNECTED \in DOMAIN table
  THEN <<Call(AUTH_CONNECTED, table[AUTH_CONNECTED], AuthConnectedMsg,
              [protocol |-> <<"@internal">>, path |-> AUTH_CONNECTED,
               parameter |-> None])>>
  ELSE <<>>

\* Router::handle_internal_route: the callback invocations it makes.
HandleInternalRoute(table, route, message) ==
  IF BasePath(route) = SIGNIN
  THEN IF route.parameter = Some(<<"ok">>) /\ AUTH_CONNECTED \in DOMAIN table
       THEN <<Call(AUTH_CONNECTED, table[AUTH_CONNECTED], AuthConnectedMsg,
                   [protocol |-> <<"@internal">>, path |-> AUTH_CONNECTED,
                    parameter |-> None])>>
       ELSE <<>>
  ELSE <<>>

\* A plausible slip in route_message: the handler table is consulted without
\* the reserved-path branch.
RouteMessageNoReservedBranch(table, message) ==
  LET p == Parse(message.route) IN
  IF ~p.ok THEN [err |-> p.err, calls |-> <<>>]
  ELSE IF FullPath(p.route) \in DOMAIN table
  THEN [err |-> "", calls |-> <<Call(FullPath(p.route), table[FullPath(p.route)],
                                     message, p.route)>>]
  ELSE IF BasePath(p.route) \in DOMAIN table
  THEN [err |-> "", calls |-> <<Call(BasePath(p.route), table[BasePath(p.route)],
                                     message, p.route)>>]
  ELSE [err |-> "", calls |-> <<>>]

\* A plausible slip in route_message: the bare base path is looked up before
\* the exact path:parameter key.
RouteMessageBaseFirst(table, message) ==
  LET p == Parse(message.route) IN
  IF ~p.ok THEN [err |-> p.err, calls |-> <<>>]
  ELSE IF IsPathReserved(BasePath(p.route))
  THEN [err |-> "", calls |-> HandleInternalRoute(table, p.route, message)]
  ELSE IF BasePath(p.route) \in DOMAIN table
  THEN [err |-> "", calls |-> <<Call(BasePath(p.route), table[BasePath(p.route)],
                                     message, p.route)>>]
  ELSE IF FullPath(p.route) \in DOMAIN table
  THEN [err |-> "", calls |-> <<Call(FullPath(p.route), table[FullPath(p.route)],
                                     message, p.route)>>]
  ELSE [err |-> "", calls |-> <<>>]

\* A plausible slip in route_message: only the exact key is looked up, with
\* no fall-back to the base path.
RouteMessageExactOnly(table, message) ==
  LET p == Parse(message.route) IN
  IF ~p.ok THEN [err |-> p.err, calls |-> <<>>]
  ELSE IF IsPathReserved(BasePath(p.route))
  THEN [err |-> "", calls |-> HandleInternalRoute(table, p.route, message)]
  ELSE IF FullPath(p.route) \in DOMAIN table
  THEN [err |-> "", calls |-> <<Call(FullPath(p.route), table[FullPath(p.route)],
                                     message, p.route)>>]
  ELSE [err |-> "", calls |-> <<>>]

\* A plausible slip in route_message: a topic without a handler is reported
\* as an error instead of being dropped.
RouteMessageUnmatchedIsError(table, message) ==
  LET p == Parse(message.route) IN
  IF ~p.ok THEN [err |-> p.err, calls |-> <<>>]
  ELSE IF IsPathReserved(BasePath(p.route))
  THEN [err |-> "", calls |-> HandleInternalRoute(table, p.route, message)]
  ELSE IF FullPath(p.route) \in DOMAIN table
  THEN [err |-> "", calls |-> <<Call(FullPath(p.route), table[FullPath(p.route)],
                                     message, p.route)>>]
  ELSE IF BasePath(p.route) \in DOMAIN table
  THEN [err |-> "", calls |-> <<Call(BasePath(p.route), table[BasePath(p.route)],
                                     message, p.route)>>]
  ELSE [err |-> "InvalidPath", calls |-> <<>>]

\* Router::route_message, up to the callback's own result: the error it
\* returns before any callback runs, and the callback invocations it makes.
RouteMessage(table, message) ==
  LET p == Parse(message.route) IN
  IF ~p.ok THEN [err |-> p.err, calls |-> <<>>]
  ELSE IF IsPathReserved(BasePath(p.route))
  THEN [err |-> "", calls |-> HandleInternalRoute(table, p.route, message)]
  ELSE IF FullPath(p.route) \in DOMAIN table
  THEN [err |-> "", calls |-> <<Call(FullPath(p.route), table[FullPath(p.route)],
                                     message, p.route)>>]
  ELSE IF BasePath(p.route) \in DOMAIN table
  THEN [err |-> "", calls |-> <<Call(BasePath(p.route), table[BasePath(p.route)],
                                     message, p.route)>>]
  ELSE [err |-> "", calls |-> <<>>]

\* The Result of a dispatch: a callback's Err is propagated by `?`.
DispatchResult(d, hres) ==
  IF d.err # "" THEN d.err
  ELSE IF d.calls # <<>> /\ hres = "Err" THEN "HandlerErr"
  ELSE "Ok"

\* A plausible slip in handle_text_message: the result of the parse is not
\* looked at and whatever message came out of it is routed.
HandleTextMessageRoutesAnyway(table, text) == RouteMessage(table, text.msg)

\* WsClient::handle_text_message: a frame that is no JSON message is
\* InvalidMessageReceived; any other is routed.
HandleTextMessage(table, text) ==
  IF ~text.json THEN [err |-> "InvalidMessageReceived", calls |-> <<>>]
  ELSE RouteMessage(table, text.msg)

\* ------------------------------------------------------------------- state
\* ------------------------------------------------------------ HTTP session
\* FullUser values the remote side returns.
NoProfile == [name |-> "", status |-> "Offline"]
Profiles ==
  {[name |-> "tenno", status |-> "Online"],
   [name |-> "tenno", status |-> "InGame"]}
NoUser == [some |-> FALSE, val |-> NoProfile]
SomeUser(u) == [some |-> TRUE, val |-> u]

\* Order lists the remote side returns for /orders/my, as order ids.
OrderLists == {<<>>, <<"o1">>, <<"o1", "o2">>}

\* device_id arguments of login.
DeviceIds == {"dev1", "dev2"}

\* Authorization header of the sign-in response: absent, bytes that are not
\* visible ASCII, or text.  Text is a sequence of pieces; each of the first
\* four pieces of a text is one byte.
HeaderTexts ==
  {<<"J", "W", "T", " ", "t1">>,
   <<"J", "W", "T", " ", "t2">>,
   <<"B", "e", "a", "r", "er t1">>,
   <<"J", "W">>}
Headers ==
  {[kind |-> "absent", val |-> <<>>], [kind |-> "opaque", val |-> <<>>]}
    \cup {[kind |-> "text", val |-> t] : t \in HeaderTexts}

\* Body of the sign-in response: the read of the body fails, text that is not
\* an APIV1Result<AuthResp>, or one with the user it names.
LoginBodies ==
  {[kind |-> "unreadable", user |-> NoProfile],
   [kind |-> "garbage", user |-> NoProfile]}
    \cup {[kind |-> "auth", user |-> u] : u \in Profiles}

NoResponse ==
  [kind |-> "none", body |-> [kind |-> "garbage", user |-> NoProfile],
   header |-> [kind |-> "absent", val |-> <<>>]]

\* What send() on the sign-in request yields: Err, or a response.
LoginResponses ==
  {[NoResponse EXCEPT !.kind = "no_response"]}
    \cup {[kind |-> "response", body |-> b, header |-> h] :
            b \in LoginBodies, h \in Headers}

\* What a call_api request yields for the type it expects: send() fails, the
\* read of the body fails, the body does not deserialize (garbage, or the
\* remote side's error envelope {apiVersion, data?, error}), or data.
NoData == [kind |-> "none", user |-> NoProfile, orders |-> <<>>, items |-> <<>>]
Failures ==
  {[NoData EXCEPT !.kind = k] : k \in {"no_response", "unreadable", "garbage", "envelope"}}
MeResponses ==
  Failures \cup {[NoData EXCEPT !.kind = "data", !.user = u] : u \in Profiles}
OrdersResponses ==
  Failures \cup {[NoData EXCEPT !.kind = "data", !.orders = o] : o \in OrderLists}

\* Item lists the remote side returns for /items, as item ids.
ItemLists == {<<>>, <<"i1">>, <<"i1", "i2">>}
ItemsResponses ==
  Failures \cup {[NoData EXCEPT !.kind = "data", !.items = l] : l \in ItemLists}

\* Client::call_api, from send() on
CallApi(resp) ==
  IF resp.kind = "no_response" THEN [err |-> "RequestError", data |-> NoData]
  ELSE IF resp.kind = "unreadable" THEN [err |-> "Unknown", data |-> NoData]
  ELSE IF resp.kind \in {"garbage", "envelope"}
       THEN [err |-> "ParsingError", data |-> NoData]
  ELSE [err |-> "", data |-> resp]

\* Client::new
ClientNew ==
  [variant |-> "Unauthenticated", user |-> NoUser, orders |-> <<>>,
   status |-> "Offline", token |-> None, device_id |-> None,
   items_cache |-> <<>>]

\* A Client that was moved out of: the caller holds nothing.
Moved == [ClientNew EXCEPT !.variant = "Moved"]

\* A plausible slip in refresh: each field is assigned as soon as its own
\* fetch is known to have succeeded.
RefreshAssignsAsItGoes(client, me, orders) ==
  LET o == CallApi(orders)
      u == CallApi(me)
      c1 == IF o.err = "" THEN [client EXCEPT !.orders = o.data.orders] ELSE client
  IN IF o.err # "" THEN [result |-> o.err, client |-> c1]
     ELSE IF u.err # "" THEN [result |-> u.err, client |-> c1]
     ELSE [result |-> "Ok", client |-> [c1 EXCEPT !.user = SomeUser(u.data.user)]]

\* Client<Authenticated>::refresh on the two responses: orders? is applied
\* before user?, and the fields are assigned after both.
Refresh(client, me, orders) ==
  LET o == CallApi(orders)
      u == CallApi(me)
  IN IF o.err # "" THEN [result |-> o.err, client |-> client]
     ELSE IF u.err # "" THEN [result |-> u.err, client |-> client]
     ELSE [result |-> "Ok",
           client |-> [client EXCEPT !.orders = o.data.orders,
                                     !.user = SomeUser(u.data.user)]]

\* A plausible slip in login: authed_client takes its token and device id
\* from the unauthenticated Client, as it does its items_cache.
ExchangeKeepsOldCredentials(self, device_id, resp) ==
  IF resp.kind = "no_response" THEN [result |-> "Unknown", client |-> Moved]
  ELSE IF resp.body.kind = "unreadable" THEN [result |-> "panic", client |-> Moved]
  ELSE IF resp.body.kind # "auth" THEN [result |-> "ParsingError", client |-> Moved]
  ELSE IF resp.header.kind # "text" THEN [result |-> "ParsingError", client |-> Moved]
  ELSE IF Len(resp.header.val) < 4 THEN [result |-> "panic", client |-> Moved]
  ELSE [result |-> "Ok",
        client |-> [variant |-> "Authenticated",
                    user |-> SomeUser(resp.body.user), orders |-> <<>>,
                    status |-> resp.body.user.status,
                    token |-> self.token, device_id |-> self.device_id,
                    items_cache |-> self.items_cache]]

\* Client<Unauthenticated>::login, from the response of the sign-in request
\* to the construction of authed_client.
Exchange(self, device_id, resp) ==
  IF resp.kind = "no_response" THEN [result |-> "Unknown", client |-> Moved]
  ELSE IF resp.body.kind = "unreadable" THEN [result |-> "panic", client |-> Moved]
  ELSE IF resp.body.kind # "auth" THEN [result |-> "ParsingError", client |-> Moved]
  ELSE IF resp.header.kind # "text" THEN [result |-> "ParsingError", client |-> Moved]
  ELSE IF Len(resp.header.val) < 4 THEN [result |-> "panic", client |-> Moved]
  ELSE LET jwt == SubSeq(resp.header.val, 5, Len(resp.header.val)) IN
       [result |-> "Ok",
        client |-> [variant |-> "Authenticated",
                    user |-> SomeUser(resp.body.user), orders |-> <<>>,
                    status |-> resp.body.user.status,
                    token |-> Some(jwt), device_id |-> Some(<<device_id>>),
                    items_cache |-> self.items_cache]]

\* A plausible slip in login: the result of refresh is ignored.
LoginResultIgnoringRefresh(refreshed) ==
  [result |-> "Ok", client |-> refreshed.client]

\* Client<Unauthenticated>::login, from the result of refresh on
\* authed_client to the return.
LoginResult(refreshed) ==
  IF refreshed.result # "Ok"
  THEN [result |-> "Unknown", client |-> Moved]
  ELSE [result |-> "Ok", client |-> refreshed.client]

\* Order<Unowned> values a caller passes to take_order: an id and the rest
\* of the order, here its price.
NoOrder == [id |-> "", platinum |-> 0, state |-> ""]
ForeignOrders ==
  {[id |-> i, platinum |-> p, state |-> "Unowned"] :
     i \in {"o1", "o2", "o3"}, p \in {5, 9}}

\* A plausible slip in take_order: the cached list is not consulted.
TakeOrderUnchecked(client, order) ==
  [result |-> "Ok", order |-> [order EXCEPT !.state = "Owned"]]

\* Client<Authenticated>::take_order
TakeOrder(client, order) ==
  IF \E i \in 1..Len(client.orders) : client.orders[i] = order.id
  THEN [result |-> "Ok", order |-> [order EXCEPT !.state = "Owned"]]
  ELSE [result |-> "Unauthorized", order |-> NoOrder]

\* A plausible slip: the operations of impl Client<Authenticated> are
\* offered on every Client the caller holds.
IsAnyClient(client) == client.variant # "Moved"

\* The receiver of the operations of impl Client<Authenticated>.
IsAuthenticated(client) == client.variant = "Authenticated"

\* Operations of impl Client<Authenticated> that make one call_api request,
\* and those that only read the token and the device id.
OrderRequests ==
  {"my_orders", "update_order", "create_order", "close_order", "delete_order"}
CredentialReads == {"get_token", "get_device_id", "create_websocket"}
AuthenticatedOps ==
  {"refresh", "take_order"} \cup OrderRequests \cup CredentialReads

\* OrdersTopFilters as get_orders_top reads them: the Option around the
\* filters and their user_activity.
NoFilters == [some |-> FALSE, user_activity |-> None]
TopFilters ==
  {NoFilters, [some |-> TRUE, user_activity |-> None]}
    \cup {[some |-> TRUE, user_activity |-> Some(a)] : a \in {"InGame", "Online"}}

\* OrdersTopResult values the remote side returns: each order with the
\* status of its user.
BuyLists ==
  {<<>>,
   <<[id |-> "b1", status |-> "InGame"]>>,
   <<[id |-> "b1", status |-> "InGame"], [id |-> "b2", status |-> "Offline"]>>}
SellLists ==
  {<<>>,
   <<[id |-> "s1", status |-> "InGame"]>>,
   <<[id |-> "s1", status |-> "Online"], [id |-> "s2", status |-> "InGame"]>>}
NoTop == [kind |-> "none", buy |-> <<>>, sell |-> <<>>]
TopResponses ==
  {[NoTop EXCEPT !.kind = k] :
     k \in {"no_response", "unreadable", "garbage", "envelope"}}
    \cup {[kind |-> "data", buy |-> b, sell |-> l] :
            b \in BuyLists, l \in SellLists}

\* .iter().filter(p).map(downgrade).collect() on one side of the result.
RECURSIVE FilterMap(_, _, _)
FilterMap(side, is_filtering_status, activity) ==
  IF side = <<>> THEN <<>>
  ELSE LET o == Head(side)
           rest == FilterMap(Tail(side), is_filtering_status, activity)
       IN IF is_filtering_status /\ o.status = activity
          THEN <<o.id>> \o rest
          ELSE rest

\* Client::get_orders_top, from the result of call_api on.
GetOrdersTop(items, filters) ==
  IF items.err # "" THEN [result |-> items.err, orders |-> <<>>]
  ELSE LET data == items.data
           is_filtering_status ==
             IF filters.some THEN filters.user_activity.some ELSE FALSE
           activity == filters.user_activity.val
           buy == FilterMap(data.buy, is_filtering_status, activity)
           sell == FilterMap(data.sell, is_filtering_status, activity)
       IN [result |-> "Ok", orders |-> buy \o sell]

\* No Client operation has been called yet.
IdleCall ==
  [op |-> "", pc |-> "idle", device_id |-> "", self |-> Moved, authed |-> Moved,
   resp |-> NoResponse, me |-> NoData, orders |-> NoData, result |-> "",
   sent |-> <<>>, arg |-> NoOrder, value |-> NoOrder, items |-> <<>>,
   reply |-> NoData, filters |-> NoFilters, top |-> NoTop, total |-> <<>>]

\* ---------------------------------------------------------------- limiter
\* constants.rs: REQUESTS_PER_SECOND
REQUESTS_PER_SECOND == 3

\* Quota::per_second(n) allows a burst of n cells and replenishes one cell
\* every 1/n second. Time is counted in replenish intervals.
Burst == REQUESTS_PER_SECOND
IntervalsPerSecond == REQUESTS_PER_SECOND

\* build_limiter: a limiter with the whole burst available. released[k] is
\* the number of requests let through k-1 intervals ago, over one second.
BuildLimiter ==
  [cells |-> Burst, released |-> [k \in 1..IntervalsPerSecond |-> 0]]

\* A plausible slip in call_api: the limiter is asked once, as check() does,
\* and a caller that finds no cell is turned away.
UntilReadyRejects(lim) ==
  IF lim.cells > 0
  THEN [outcome |-> "ready",
        limiter |-> [lim EXCEPT !.cells = @ - 1, !.released[1] = @ + 1]]
  ELSE [outcome |-> "rejected", limiter |-> lim]

\* limiter.until_ready(): resolves by taking a cell when one is there and
\* stays pending otherwise; it has no error outcome.
UntilReady(lim) ==
  IF lim.cells > 0
  THEN [outcome |-> "ready",
        limiter |-> [lim EXCEPT !.cells = @ - 1, !.released[1] = @ + 1]]
  ELSE [outcome |-> "pending", limiter |-> lim]

\* One replenish interval passes: a cell comes back, up to the burst.
Replenish(lim) ==
  [cells |-> IF lim.cells < Burst THEN lim.cells + 1 ELSE Burst,
   released |-> [k \in 1..IntervalsPerSecond |->
                   IF k = 1 THEN 0 ELSE lim.released[k - 1]]]

\* Requests let through during the last second.
RECURSIVE SumTo(_, _)
SumTo(f, n) == IF n = 0 THEN 0 ELSE f[n] + SumTo(f, n - 1)
ReleasedInLastSecond(lim) == SumTo(lim.released, IntervalsPerSecond)

\* call_api invocations made concurrently on one Client, and what send()
\* yields for each.
Invocations == {"call1", "call2", "call3", "call4", "call5"}
NotCalled == [pc |-> "not_called", result |-> ""]
ThrottledResponses ==
  {r \in ItemsResponses : r.kind = "no_response" \/ r.items = <<"i1">>}

VARIABLES
  routes,      \* Router.routes: the handler table, key -> callback
  reg_calls,   \* register_callback calls made on the builder
  build_pc,    \* the caller: "builder", "sleeping" in build(), "returned"
  sup_pc,      \* the spawned supervisor: "unspawned", "connecting", "open",
               \* "backoff", "panicked"
  epoch,       \* sockets opened so far; the newest is epoch
  rd_state,    \* read task of each epoch: "none", "running", "closed", "failed",
               \* "joined" once its JoinHandle has been consumed
  wr_state,    \* write task of each epoch: "none", "running", "failed",
               \* "aborted", "joined"
  abort,       \* AbortHandle of each epoch's write task: abort() was called
  rx_alive,    \* the receiver of each epoch's channel has not been dropped
  chan,        \* messages queued in each epoch's unbounded channel
  written,     \* messages written to each epoch's socket while it exists, in order
  holder,      \* sender_holder: 0 for None, e for Some(sender of epoch e)
  conn_disp,   \* per epoch: dispatches of the internal connected message
  disc_disp,   \* per epoch: dispatches of the internal disconnected message
  last,        \* the last observable operation and its outcome
  inbox,       \* per epoch: text frames received on the socket, not yet
               \* yielded by read.next(), oldest first
  busy,        \* per epoch: frames whose handle_text_message call has begun
               \* and not returned
  mutex,       \* who holds the sender_holder mutex: "free", "supervisor" or
               \* a caller thread
  pending,     \* per caller thread: where it is in a WsClient call
  sess,        \* the Client value the caller owns: its variant and fields
  call,        \* the Client operation in progress or last returned: its
               \* position, the responses it received and its result
  limiter,     \* the Client's rate limiter: cells available and the requests
               \* it let through during the last second
  tasks,       \* per call_api invocation: its position and its result
  snapshot     \* the MessageSender a caller got from get_sender: 0 for
               \* none, e for a clone of the sender of epoch e

vars == <<routes, reg_calls, build_pc, sup_pc, epoch, rd_state, wr_state, abort,
          rx_alive, chan, written, holder, conn_disp, disc_disp, last,
          inbox, busy, mutex, pending, sess, call, limiter, tasks, snapshot>>

routerVars == <<routes, reg_calls>>
managerVars == <<sup_pc, epoch, rd_state, wr_state, abort, rx_alive, chan,
                 written, holder, conn_disp, disc_disp>>
taskVars == <<rd_state, wr_state, abort, rx_alive, chan, written>>
readerVars == <<inbox, busy>>
lockVars == <<mutex, pending>>
sessionVars == <<sess, call>>
throttleVars == <<limiter, tasks>>
senderVars == <<snapshot>>

\* Threads that call the WsClient operations.
Callers == {"caller1", "caller2"}
Idle == [pc |-> "idle", op |-> ""]

NoEvent ==
  [kind |-> "none", op |-> "", route |-> <<>>, result |-> "", enq |-> FALSE,
   open |-> FALSE, calls |-> <<>>, handler |-> 0, sender |-> 0,
   parsed |-> [ok |-> FALSE, err |-> "", detail |-> <<>>,
               route |-> [protocol |-> <<>>, path |-> <<>>, parameter |-> None]],
   text |-> <<>>,
   reparsed |-> [ok |-> FALSE, err |-> "", detail |-> <<>>,
                 route |-> [protocol |-> <<>>, path |-> <<>>, parameter |-> None]]]

\* Keys a caller registers in the runs of the connection manager.
ManagerKeys == {CONNECTED, DISCONNECTED, AUTH_CONNECTED, ORDERS_NEW}

\* Keys a caller offers to register_callback in the runs of the router alone.
RegisterKeys ==
  ManagerKeys \cup {SIGNIN, SIGNIN \o <<COLON, "ok">>, ORDERS_NEW \o <<COLON, "ok">>}

\* The table a builder holds after register_callback on every key of keys.
RECURSIVE RegisterAll(_, _)
RegisterAll(table, keys) ==
  IF keys = {} THEN table
  ELSE LET k == CHOOSE k \in keys : TRUE
       IN RegisterAll(Register(table, k, 1).routes, keys \ {k})

\* Text frames the remote side sends.
InFrames ==
  {[frame |-> "text", json |-> TRUE,
    msg |-> Msg(<<"@wfm", PIPE>> \o ORDERS_NEW, "data")],
   [frame |-> "text", json |-> TRUE,
    msg |-> Msg(<<"@wfm", PIPE>> \o SIGNIN \o <<COLON, "ok">>, "data")],
   [frame |-> "text", json |-> FALSE, msg |-> Msg(<<>>, "")]}

\* Frames the remote side sends that are neither Text nor Close.
OtherFrames ==
  {[frame |-> f, json |-> FALSE, msg |-> Msg(<<>>, "")] : f \in {"binary", "ping"}}

\* Routes a caller passes to the WsClient send operations.
SendRoutes ==
  {<<"@wfm", PIPE>> \o ORDERS_NEW,
   <<"@internal", PIPE>> \o CONNECTED,
   <<"@wfm", PIPE>> \o SIGNIN,
   <<"internal", PIPE>> \o ORDERS_NEW,
   ORDERS_NEW}

\* An epoch is open from the spawn of its tasks until the supervisor has
\* joined both.
EpochOpen == sup_pc = "open"

\* The caller and handler messages epoch e's channel still accepts here.
HasRoom(e) == Len(chan[e]) + Len(written[e]) < MaxQueue + 1

\* A plausible slip in MessageSender::send_message: the result of
\* UnboundedSender::send is dropped.
SenderSendUnchecked(e, message) ==
  [result |-> "Ok", queue |-> Append(chan[e], message)]

\* MessageSender::send_message on the sender of epoch e: UnboundedSender::send
\* fails exactly when the receiver is gone.
SenderSend(e, message) ==
  IF rx_alive[e]
  THEN [result |-> "Ok", queue |-> Append(chan[e], message)]
  ELSE [result |-> "SendError", queue |-> chan[e]]

\* What a callback does besides returning: it may send one message through
\* the sender it is handed (the sender of epoch e).
HandlerSends(e, invoked, hsend, queue) ==
  IF invoked /\ hsend THEN Append(queue, HandlerMsg) ELSE queue

\* ------------------------------------------------------------ initial states
ManagerInit ==
  /\ sup_pc = IF build_pc = "builder" THEN "unspawned" ELSE "connecting"
  /\ epoch = 0
  /\ rd_state = [e \in Epochs |-> "none"]
  /\ wr_state = [e \in Epochs |-> "none"]
  /\ abort = [e \in Epochs |-> FALSE]
  /\ rx_alive = [e \in Epochs |-> FALSE]
  /\ chan = [e \in Epochs |-> <<>>]
  /\ written = [e \in Epochs |-> <<>>]
  /\ holder = 0
  /\ conn_disp = [e \in Epochs |-> 0]
  /\ disc_disp = [e \in Epochs |-> 0]
  /\ inbox = [e \in Epochs |-> <<>>]
  /\ busy = [e \in Epochs |-> <<>>]
  /\ mutex = "free"
  /\ pending = [c \in Callers |-> Idle]
  /\ sess = ClientNew
  /\ call = IdleCall
  /\ limiter = BuildLimiter
  /\ tasks = [i \in Invocations |-> NotCalled]
  /\ snapshot = 0

\* build() has spawned the supervisor and sleeps; the router is whatever the
\* register_callback calls before it left.
Init ==
  /\ \E keys \in SUBSET ManagerKeys :
       /\ routes = RegisterAll(EmptyRoutes, keys)
       /\ reg_calls = Cardinality(keys)
  /\ build_pc = "sleeping"
  /\ ManagerInit
  /\ last = NoEvent

\* ------------------------------------------------------------- supervisor
\* connect_async fails: log, sleep.
ConnectFail ==
  /\ sup_pc = "connecting"
  /\ sup_pc' = "backoff"
  /\ UNCHANGED <<senderVars, throttleVars, sessionVars, lockVars, readerVars,
                 routerVars, build_pc, epoch, taskVars, holder, conn_disp,
                 disc_disp, last>>

\* tokio::time::sleep(5 s) is over: next iteration of the loop.
Backoff ==
  /\ sup_pc = "backoff"
  /\ sup_pc' = "connecting"
  /\ UNCHANGED <<senderVars, throttleVars, sessionVars, lockVars, readerVars,
                 routerVars, build_pc, epoch, taskVars, holder, conn_disp,
                 disc_disp, last>>

\* A plausible slip at the hand-off: the MutexGuard is bound to a name and
\* lives on while the epoch runs.
HandOffGuardKept == "supervisor"

\* The holder of the sender_holder mutex after the hand-off statement: the
\* MutexGuard is a temporary, dropped at the end of the statement.
HandOffGuard == "free"

\* connect_async succeeds: channel, connected event (unwrap), sign-in request,
\* sender hand-off, spawn of the write and the read task.  No await in between.
\* The sign-in send cannot fail (the `continue` branch): this iteration still
\* holds the receiver.
ConnectOk ==
  /\ sup_pc = "connecting"
  /\ epoch < MaxEpochs
  /\ LET e == epoch + 1
         d == RouteMessage(routes, ConnectMsg)
         invoked == d.calls # <<>>
     IN \E hres \in {"Ok", "Err"}, hsend \in BOOLEAN :
          /\ ~invoked => (hres = "Ok" /\ ~hsend)
          /\ epoch' = e
          /\ conn_disp' = [conn_disp EXCEPT ![e] = @ + 1]
          /\ last' = [NoEvent EXCEPT !.kind = "dispatch", !.op = "connected",
                        !.route = ConnectMsg.route,
                        !.result = DispatchResult(d, hres),
                        !.enq = (invoked /\ hsend), !.open = EpochOpen, !.calls = d.calls]
          /\ IF DispatchResult(d, hres) # "Ok"
             THEN \* unwrap() panics: the task ends and drops its locals
                  /\ sup_pc' = "panicked"
                  /\ UNCHANGED <<taskVars, holder, mutex>>
             ELSE /\ sup_pc' = "open"
                  /\ mutex = "free"
                  /\ mutex' = HandOffGuard
                  /\ chan' = [chan EXCEPT ![e] =
                               Append(HandlerSends(e, invoked, hsend, <<>>), AuthMsg)]
                  /\ rx_alive' = [rx_alive EXCEPT ![e] = TRUE]
                  /\ holder' = e
                  /\ wr_state' = [wr_state EXCEPT ![e] = "running"]
                  /\ rd_state' = [rd_state EXCEPT ![e] = "running"]
                  /\ UNCHANGED <<abort, written>>
  /\ UNCHANGED <<senderVars, throttleVars, sessionVars, pending, readerVars,
                 routerVars, build_pc, disc_disp>>

\* A variant of the join that waits for the read task alone.
TasksJoinedReadOnly(e) == rd_state[e] \in {"closed", "failed"}

\* tokio::join!(read_task, write_task) has both results.
TasksJoined(e) ==
  /\ rd_state[e] \in {"closed", "failed"}
  /\ wr_state[e] \in {"failed", "aborted"}

\* A finished task's state once tokio::join! has taken its result.
Joined(st) == IF st \in {"closed", "failed", "aborted"} THEN "joined" ELSE st

\* Both tasks joined: the socket halves are gone with them; disconnected
\* event (unwrap), then sleep.
Join ==
  /\ sup_pc = "open"
  /\ TasksJoined(epoch)
  /\ rd_state' = [rd_state EXCEPT ![epoch] = Joined(@)]
  /\ wr_state' = [wr_state EXCEPT ![epoch] = Joined(@)]
  /\ written' = [written EXCEPT ![epoch] = <<>>]
  /\ LET d == RouteMessage(routes, DisconnectMsg)
         invoked == d.calls # <<>>
     IN \E hres \in {"Ok", "Err"} :
          /\ ~invoked => hres = "Ok"
          /\ disc_disp' = [disc_disp EXCEPT ![epoch] = @ + 1]
          /\ last' = [NoEvent EXCEPT !.kind = "dispatch", !.op = "disconnected",
                        !.route = DisconnectMsg.route,
                        !.result = DispatchResult(d, hres),
                        !.open = EpochOpen, !.calls = d.calls]
          /\ sup_pc' = IF DispatchResult(d, hres) # "Ok" THEN "panicked" ELSE "backoff"
  /\ UNCHANGED <<senderVars, throttleVars, sessionVars, lockVars, readerVars,
                 routerVars, build_pc, epoch, abort, rx_alive, chan, holder,
                 conn_disp>>

\* ------------------------------------------------------------- write task
\* A plausible slip in the write loop: the newest queued message is taken.
RecvNewest(queue) ==
  [msg |-> queue[Len(queue)], rest |-> SubSeq(queue, 1, Len(queue) - 1)]

\* rx.recv() on a channel that holds messages: the oldest one, removed.
Recv(queue) == [msg |-> Head(queue), rest |-> Tail(queue)]

\* rx.recv() yields the next message; the socket write succeeds or fails.
WriteStep ==
  /\ epoch >= 1
  /\ \E e \in 1..epoch :
       /\ wr_state[e] = "running"
       /\ ~abort[e]
       /\ chan[e] # <<>>
       /\ \E ok \in BOOLEAN :
            IF ok
            THEN /\ written' = [written EXCEPT ![e] = Append(@, Recv(chan[e]).msg)]
                 /\ chan' = [chan EXCEPT ![e] = Recv(@).rest]
                 /\ UNCHANGED <<wr_state, rx_alive>>
            ELSE \* Write failed: ws_error set, break; the task ends, rx is dropped
                 /\ wr_state' = [wr_state EXCEPT ![e] = "failed"]
                 /\ rx_alive' = [rx_alive EXCEPT ![e] = FALSE]
                 /\ chan' = [chan EXCEPT ![e] = <<>>]
                 /\ UNCHANGED written
  /\ UNCHANGED <<senderVars, throttleVars, sessionVars, lockVars, readerVars,
                 routerVars, build_pc, sup_pc, epoch, rd_state, abort, holder,
                 conn_disp, disc_disp, last>>

\* The Abortable wrapper is polled after abort(): the task ends, rx is dropped.
WriteAborted ==
  /\ epoch >= 1
  /\ \E e \in 1..epoch :
       /\ wr_state[e] = "running"
       /\ abort[e]
       /\ wr_state' = [wr_state EXCEPT ![e] = "aborted"]
       /\ rx_alive' = [rx_alive EXCEPT ![e] = FALSE]
       /\ chan' = [chan EXCEPT ![e] = <<>>]
  /\ UNCHANGED <<senderVars, throttleVars, sessionVars, lockVars, readerVars,
                 routerVars, build_pc, sup_pc, epoch, rd_state, abort, written,
                 holder, conn_disp, disc_disp, last>>

\* -------------------------------------------------------------- read task
\* A plausible slip in the read loop: each frame is handed to a task of its
\* own and the loop goes on to read.next() without waiting for it.
ReaderIdleAlways(e) == TRUE

\* The read loop is at read.next(): the handle_text_message call of the frame
\* it took before has returned.
ReaderIdle(e) == busy[e] = <<>>

\* read.next() yields a text frame that arrived just now: handle_text_message;
\* an Err is logged.
ReadFrom(frames) ==
  /\ epoch >= 1
  /\ \E e \in 1..epoch, text \in frames, hres \in {"Ok", "Err"}, hsend \in BOOLEAN :
       /\ rd_state[e] = "running"
       /\ ReaderIdle(e) /\ inbox[e] = <<>>
       /\ LET d == HandleTextMessage(routes, text)
              invoked == d.calls # <<>>
              accepted == invoked /\ hsend /\ rx_alive[e]
          IN /\ ~invoked => (hres = "Ok" /\ ~hsend)
             /\ accepted => HasRoom(e)
             /\ chan' = [chan EXCEPT ![e] =
                          IF accepted THEN HandlerSends(e, invoked, hsend, @) ELSE @]
             /\ last' = [NoEvent EXCEPT !.kind = "dispatch", !.op = "inbound",
                           !.route = text.msg.route,
                           !.result = DispatchResult(d, hres),
                           !.enq = accepted, !.open = EpochOpen, !.calls = d.calls]
  /\ UNCHANGED <<senderVars, throttleVars, sessionVars, lockVars, readerVars,
                 routerVars, build_pc, sup_pc, epoch, rd_state, wr_state, abort,
                 rx_alive, written, holder, conn_disp, disc_disp>>

ReadText == ReadFrom(InFrames)

\* Text frames of the remote side that name the manager's own lifecycle
\* topics.
LifecycleFrames ==
  {[frame |-> "text", json |-> TRUE, msg |-> Msg(<<"@internal", PIPE>> \o t, "data")] :
     t \in {CONNECTED, DISCONNECTED, AUTH_CONNECTED}}

\* read.next() yields a text frame of the remote side's choosing.
ReadAnyText == ReadFrom(InFrames \cup LifecycleFrames)

\* read.next() yields a Close frame or the end of the stream: leave the loop
\* and abort the write task.
ReadClose ==
  /\ epoch >= 1
  /\ \E e \in 1..epoch :
       /\ rd_state[e] = "running"
       /\ ReaderIdle(e) /\ inbox[e] = <<>>
       /\ rd_state' = [rd_state EXCEPT ![e] = "closed"]
       /\ abort' = [abort EXCEPT ![e] = TRUE]
  /\ UNCHANGED <<senderVars, throttleVars, sessionVars, lockVars, readerVars,
                 routerVars, build_pc, sup_pc, epoch, wr_state, rx_alive, chan,
                 written, holder, conn_disp, disc_disp, last>>

\* read.next() yields Err: ws_error set, leave the loop and abort the write task.
ReadError ==
  /\ epoch >= 1
  /\ \E e \in 1..epoch :
       /\ rd_state[e] = "running"
       /\ ReaderIdle(e) /\ inbox[e] = <<>>
       /\ rd_state' = [rd_state EXCEPT ![e] = "failed"]
       /\ abort' = [abort EXCEPT ![e] = TRUE]
  /\ UNCHANGED <<senderVars, throttleVars, sessionVars, lockVars, readerVars,
                 routerVars, build_pc, sup_pc, epoch, wr_state, rx_alive, chan,
                 written, holder, conn_disp, disc_disp, last>>

\* The read task frame by frame: frames wait on the socket until read.next()
\* yields them, and a dispatch takes time.
\* The remote side sends a frame on the socket of epoch e.
FrameArrives ==
  /\ epoch >= 1
  /\ \E e \in 1..epoch, text \in InFrames \cup OtherFrames :
       /\ rd_state[e] = "running"
       /\ Len(inbox[e]) < MaxInbox
       /\ inbox' = [inbox EXCEPT ![e] = Append(@, text)]
  /\ UNCHANGED <<senderVars, throttleVars, sessionVars, lockVars, routerVars,
                 build_pc,
                 managerVars, last, busy>>

\* read.next() yields the oldest waiting text frame and handle_text_message
\* is entered.
ReadNextText ==
  /\ epoch >= 1
  /\ \E e \in 1..epoch :
       /\ rd_state[e] = "running"
       /\ ReaderIdle(e)
       /\ inbox[e] # <<>>
       /\ Head(inbox[e]).frame = "text"
       /\ busy' = [busy EXCEPT ![e] = Append(@, Head(inbox[e]))]
       /\ inbox' = [inbox EXCEPT ![e] = Tail(@)]
  /\ UNCHANGED <<senderVars, throttleVars, sessionVars, lockVars, routerVars,
                 build_pc,
                 managerVars, last>>

\* read.next() yields the oldest waiting frame, which is neither Text nor
\* Close: the Ok(_) arm does nothing and the loop goes on.
ReadNextOther ==
  /\ epoch >= 1
  /\ \E e \in 1..epoch :
       /\ rd_state[e] = "running"
       /\ ReaderIdle(e)
       /\ inbox[e] # <<>>
       /\ Head(inbox[e]).frame # "text"
       /\ inbox' = [inbox EXCEPT ![e] = Tail(@)]
  /\ UNCHANGED <<senderVars, throttleVars, sessionVars, lockVars, routerVars,
                 build_pc,
                 managerVars, last, busy>>

\* handle_text_message returns for a frame it was entered with: the callback,
\* if any, has run and has sent what it sends; an Err is logged.
HandleTextReturns ==
  /\ epoch >= 1
  /\ \E e \in 1..epoch, hres \in {"Ok", "Err"}, hsend \in BOOLEAN :
       \E k \in 1..Len(busy[e]) :
         LET text == busy[e][k]
             d == HandleTextMessage(routes, text)
             invoked == d.calls # <<>>
             accepted == invoked /\ hsend /\ rx_alive[e]
         IN /\ ~invoked => (hres = "Ok" /\ ~hsend)
            /\ accepted => HasRoom(e)
            /\ chan' = [chan EXCEPT ![e] =
                         IF accepted THEN HandlerSends(e, invoked, hsend, @) ELSE @]
            /\ busy' = [busy EXCEPT ![e] =
                         SubSeq(@, 1, k - 1) \o SubSeq(@, k + 1, Len(@))]
            /\ last' = [NoEvent EXCEPT !.kind = "dispatch", !.op = "inbound",
                          !.route = text.msg.route,
                          !.result = DispatchResult(d, hres),
                          !.enq = accepted, !.open = EpochOpen, !.calls = d.calls]
  /\ UNCHANGED <<senderVars, throttleVars, sessionVars, lockVars, routerVars,
                 build_pc,
                 sup_pc, epoch, rd_state,
                 wr_state, abort, rx_alive, written, holder, conn_disp,
                 disc_disp, inbox>>

\* ------------------------------------------------------------------ caller
\* build(): the one-second sleep is over; Ok(WsClient) is returned.
BuildReturn ==
  /\ build_pc = "sleeping"
  /\ build_pc' = "returned"
  /\ UNCHANGED <<senderVars, throttleVars, sessionVars, lockVars, readerVars,
                 routerVars, managerVars, last>>

\* The outcome of a WsClient send that reaches the sender cell.
ThroughCell(op, route, none_err) ==
  LET r == IF holder = 0
           THEN [result |-> none_err, queue |-> <<>>]
           ELSE SenderSend(holder, Msg(route, "from-caller"))
      enq == holder # 0 /\ r.result = "Ok"
  IN /\ enq => HasRoom(holder)
     /\ chan' = IF enq THEN [chan EXCEPT ![holder] = r.queue] ELSE chan
     /\ last' = [NoEvent EXCEPT !.kind = "send", !.op = op, !.route = route,
                   !.result = r.result, !.enq = enq, !.open = EpochOpen]

\* WsClient::send_message
SendMessage ==
  /\ build_pc = "returned"
  /\ \E route \in SendRoutes : ThroughCell("send_message", route, "ConnectionError")
  /\ UNCHANGED <<senderVars, throttleVars, sessionVars, lockVars, readerVars,
                 routerVars, build_pc, sup_pc, epoch, rd_state, wr_state, abort,
                 rx_alive, written, holder, conn_disp, disc_disp>>

\* WsClient::send_response
SendResponse ==
  /\ build_pc = "returned"
  /\ \E route \in SendRoutes : ThroughCell("send_response", route, "NotConnected")
  /\ UNCHANGED <<senderVars, throttleVars, sessionVars, lockVars, readerVars,
                 routerVars, build_pc, sup_pc, epoch, rd_state, wr_state, abort,
                 rx_alive, written, holder, conn_disp, disc_disp>>

\* WsClient::send_request
SendRequest ==
  /\ build_pc = "returned"
  /\ \E route \in SendRoutes :
       LET p == Parse(route) IN
       IF ~p.ok \/ p.route.protocol = <<"internal">>
       THEN /\ last' = [NoEvent EXCEPT !.kind = "send", !.op = "send_request",
                          !.route = route,
                          !.result = IF ~p.ok THEN "InvalidPath" ELSE "ReservedPath",
                          !.open = EpochOpen]
            /\ UNCHANGED chan
       ELSE ThroughCell("send_request", route, "NotConnected")
  /\ UNCHANGED <<senderVars, throttleVars, sessionVars, lockVars, readerVars,
                 routerVars, build_pc, sup_pc, epoch, rd_state, wr_state, abort,
                 rx_alive, written, holder, conn_disp, disc_disp>>

\* The WsClient calls statement by statement, made by several threads.
CallOps == {"send_message", "send_response", "send_request", "get_sender"}

\* Routes the threads pass: one that every call accepts and one that
\* send_request refuses.
CallRoutes ==
  {<<"@wfm", PIPE>> \o ORDERS_NEW,
   <<"internal", PIPE>> \o ORDERS_NEW}

\* The error a call returns when the cell holds None.
NoneError(op) == IF op = "send_message" THEN "ConnectionError" ELSE "NotConnected"

\* send_request refuses the route before it touches the mutex.
Refused(route) ==
  LET p == Parse(route) IN ~p.ok \/ p.route.protocol = <<"internal">>

\* A thread enters a WsClient call; send_request returns at once on a route
\* it refuses, every other call goes on to self.sender.lock().
SendCalled(c) ==
  /\ build_pc = "returned"
  /\ pending[c].pc = "idle"
  /\ \E op \in CallOps, route \in CallRoutes :
       IF op = "send_request" /\ Refused(route)
       THEN /\ last' = [NoEvent EXCEPT !.kind = "send", !.op = op, !.route = route,
                          !.result = IF ~Parse(route).ok THEN "InvalidPath"
                                     ELSE "ReservedPath",
                          !.open = EpochOpen]
            /\ UNCHANGED pending
       ELSE /\ pending' = [pending EXCEPT ![c] = [pc |-> "waiting", op |-> op]]
            /\ UNCHANGED last
  /\ UNCHANGED <<senderVars, throttleVars, sessionVars, mutex, readerVars,
                 routerVars,
                 build_pc, managerVars>>

\* self.sender.lock() returns the guard to a waiting thread.
SendLocks(c) ==
  /\ pending[c].pc = "waiting"
  /\ mutex = "free"
  /\ (holder # 0 /\ rx_alive[holder]) => HasRoom(holder)
  /\ mutex' = c
  /\ pending' = [pending EXCEPT ![c].pc = "holding"]
  /\ UNCHANGED <<senderVars, throttleVars, sessionVars, readerVars, routerVars,
                 build_pc,
                 managerVars, last>>

\* The thread holding the guard reads the cell, sends through the sender it
\* finds (or clones it, for get_sender), drops the guard and returns.
SendReturns(c) ==
  /\ pending[c].pc = "holding"
  /\ mutex = c
  /\ LET op == pending[c].op IN
     \E route \in CallRoutes :
       /\ op = "send_request" => ~Refused(route)
       /\ IF op = "get_sender"
          THEN /\ last' = [NoEvent EXCEPT !.kind = "send", !.op = op,
                             !.result = IF holder = 0 THEN "None" ELSE "Some",
                             !.open = EpochOpen]
               /\ UNCHANGED chan
          ELSE LET r == IF holder = 0
                        THEN [result |-> NoneError(op), queue |-> <<>>]
                        ELSE SenderSend(holder, Msg(route, "from-caller"))
                   enq == holder # 0 /\ r.result = "Ok"
               IN /\ chan' = IF enq THEN [chan EXCEPT ![holder] = r.queue] ELSE chan
                  /\ last' = [NoEvent EXCEPT !.kind = "send", !.op = op,
                                !.route = route, !.result = r.result,
                                !.enq = enq, !.open = EpochOpen]
  /\ mutex' = "free"
  /\ pending' = [pending EXCEPT ![c] = Idle]
  /\ UNCHANGED <<senderVars, throttleVars, sessionVars, readerVars, routerVars,
                 build_pc,
                 sup_pc, epoch, rd_state,
                 wr_state, abort, rx_alive, written, holder, conn_disp,
                 disc_disp>>

Next ==
  \/ ConnectFail
  \/ Backoff
  \/ ConnectOk
  \/ Join
  \/ WriteStep
  \/ WriteAborted
  \/ ReadText
  \/ ReadClose
  \/ ReadError
  \/ BuildReturn
  \/ SendMessage
  \/ SendResponse
  \/ SendRequest

Spec == Init /\ [][Next]_vars

\* Scheduling: the runtime polls every spawned task that can make progress, a
\* pending connect resolves, and timers fire.  What the remote side sends and
\* when the socket reports an error to the reader is up to the network.
\* The runs start from a builder on which no callback was registered.
FairInit ==
  /\ routes = EmptyRoutes
  /\ reg_calls = 0
  /\ build_pc = "sleeping"
  /\ ManagerInit
  /\ last = NoEvent

FairSpec ==
  /\ FairInit
  /\ [][Next]_vars
  /\ WF_vars(ConnectOk \/ ConnectFail)
  /\ WF_vars(Backoff)
  /\ WF_vars(Join)
  /\ WF_vars(WriteStep)
  /\ WF_vars(WriteAborted)
  /\ WF_vars(BuildReturn)

\* WsClient::get_sender: a clone of what the cell holds.
GetSender ==
  /\ build_pc = "returned"
  /\ snapshot' = holder
  /\ UNCHANGED <<throttleVars, sessionVars, lockVars, readerVars, routerVars,
                 build_pc, managerVars, last>>

\* MessageSender::send_message, send_response or send_request on the sender
\* the caller got from get_sender; the message is marked with the epoch of
\* that sender.
SnapshotSend ==
  /\ snapshot # 0
  /\ LET r == SenderSend(snapshot, Msg(<<"@wfm", PIPE>> \o ORDERS_NEW,
                                       <<"from-sender", snapshot>>))
         enq == r.result = "Ok"
     IN /\ enq => HasRoom(snapshot)
        /\ chan' = IF enq THEN [chan EXCEPT ![snapshot] = r.queue] ELSE chan
        /\ last' = [NoEvent EXCEPT !.kind = "send", !.op = "sender_send",
                      !.route = <<"@wfm", PIPE>> \o ORDERS_NEW,
                      !.result = r.result, !.enq = enq, !.open = EpochOpen,
                      !.sender = snapshot]
  /\ UNCHANGED <<senderVars, throttleVars, sessionVars, lockVars, readerVars,
                 routerVars, build_pc, sup_pc, epoch, rd_state, wr_state,
                 abort, rx_alive, written, holder, conn_disp, disc_disp>>

\* The manager with a caller that keeps senders it got from get_sender and
\* sends through them, next to sends through the WsClient; the builder
\* registered callbacks for internal/connected and orders/new or fewer.
SenderInit ==
  /\ \E keys \in SUBSET {CONNECTED, ORDERS_NEW} :
       /\ routes = RegisterAll(EmptyRoutes, keys)
       /\ reg_calls = Cardinality(keys)
  /\ build_pc = "sleeping"
  /\ ManagerInit
  /\ last = NoEvent

SenderNext ==
  \/ ConnectFail
  \/ Backoff
  \/ ConnectOk
  \/ Join
  \/ WriteStep
  \/ WriteAborted
  \/ ReadText
  \/ ReadClose
  \/ ReadError
  \/ BuildReturn
  \/ SendMessage
  \/ GetSender
  \/ SnapshotSend

SenderSpec == SenderInit /\ [][SenderNext]_vars

\* The manager facing a remote side that sends whatever text frames it likes;
\* the builder registered callbacks for the lifecycle topics or fewer.
InboundInit ==
  /\ \E keys \in SUBSET {CONNECTED, DISCONNECTED, AUTH_CONNECTED} :
       /\ routes = RegisterAll(EmptyRoutes, keys)
       /\ reg_calls = Cardinality(keys)
  /\ build_pc = "sleeping"
  /\ ManagerInit
  /\ last = NoEvent

InboundNext ==
  \/ ConnectFail
  \/ Backoff
  \/ ConnectOk
  \/ Join
  \/ WriteStep
  \/ WriteAborted
  \/ ReadAnyText
  \/ ReadClose
  \/ ReadError
  \/ BuildReturn

InboundSpec == InboundInit /\ [][InboundNext]_vars

\* The connection manager with the read task taken frame by frame; no caller
\* sends.  The builder registered a callback for orders/new or none.
ReaderInit ==
  /\ \E keys \in SUBSET {ORDERS_NEW} :
       /\ routes = RegisterAll(EmptyRoutes, keys)
       /\ reg_calls = Cardinality(keys)
  /\ build_pc = "sleeping"
  /\ ManagerInit
  /\ last = NoEvent

ReaderNext ==
  \/ ConnectFail
  \/ Backoff
  \/ ConnectOk
  \/ Join
  \/ WriteStep
  \/ WriteAborted
  \/ FrameArrives
  \/ ReadNextText
  \/ ReadNextOther
  \/ HandleTextReturns
  \/ ReadClose
  \/ ReadError
  \/ BuildReturn

ReaderSpec == ReaderInit /\ [][ReaderNext]_vars

\* The connection manager with the WsClient calls taken statement by
\* statement, from several threads.  The builder registered a callback for
\* orders/new or none.
LockInit ==
  /\ \E keys \in SUBSET {ORDERS_NEW} :
       /\ routes = RegisterAll(EmptyRoutes, keys)
       /\ reg_calls = Cardinality(keys)
  /\ build_pc = "sleeping"
  /\ ManagerInit
  /\ last = NoEvent

LockNext ==
  \/ ConnectFail
  \/ Backoff
  \/ ConnectOk
  \/ Join
  \/ WriteStep
  \/ WriteAborted
  \/ ReadText
  \/ ReadClose
  \/ ReadError
  \/ BuildReturn
  \/ \E c \in Callers : SendCalled(c)
  \/ \E c \in Callers : SendLocks(c)
  \/ \E c \in Callers : SendReturns(c)

LockSpec == LockInit /\ [][LockNext]_vars

\* ------------------------------------------------------- the router alone
\* Messages handed to route_message in the runs of the router alone.
RouterMsgs ==
  {Msg(<<"@wfm", PIPE>> \o ORDERS_NEW, "data"),
   Msg(<<"@wfm", PIPE>> \o ORDERS_NEW \o <<COLON, "ok">>, "data"),
   Msg(<<"@wfm", PIPE>> \o ORDERS_NEW \o <<COLON, "created">>, "data"),
   Msg(<<"@wfm", PIPE>> \o ORDERS_NEW \o <<COLON>>, "data"),
   Msg(<<"@wfm", PIPE>> \o SIGNIN, "data"),
   Msg(<<"@wfm", PIPE>> \o SIGNIN \o <<COLON, "ok">>, "data"),
   Msg(<<"@wfm", PIPE>> \o SIGNIN \o <<COLON, "error">>, "data"),
   Msg(<<"@wfm", PIPE>> \o SIGNIN \o <<COLON, "created">>, "data"),
   Msg(<<"@internal", PIPE>> \o CONNECTED, "data"),
   Msg(ORDERS_NEW, "data")}

\* Router::new(): an empty table, no supervisor yet.
RouterInit ==
  /\ routes = EmptyRoutes
  /\ reg_calls = 0
  /\ build_pc = "builder"
  /\ ManagerInit
  /\ last = NoEvent

\* A plausible slip: build borrows the builder, which stays usable.
BuilderHeldAfterBuild(pc) == TRUE

\* register_callback and build take the builder by value: the caller holds
\* it until build is called.
BuilderHeld(pc) == pc = "builder"

\* Router::register applied to the router.
RouterRegister ==
  /\ build_pc = "builder"
  /\ reg_calls < MaxRegs
  /\ \E path \in RegisterKeys, callback \in HandlerIds :
       LET r == Register(routes, path, callback) IN
       /\ routes' = r.routes
       /\ reg_calls' = reg_calls + 1
       /\ last' = [NoEvent EXCEPT !.kind = "register", !.op = "register",
                     !.route = path, !.result = r.result, !.handler = callback]
  /\ UNCHANGED <<senderVars, throttleVars, sessionVars, lockVars, readerVars,
                 build_pc, managerVars>>

\* Router::route_message applied to the router.
RouterRouteMessage ==
  /\ build_pc = "builder"
  /\ \E message \in RouterMsgs, hres \in {"Ok", "Err"} :
       LET d == RouteMessage(routes, message) IN
       /\ d.calls = <<>> => hres = "Ok"
       /\ last' = [NoEvent EXCEPT !.kind = "dispatch", !.op = "route_message",
                     !.route = message.route, !.result = DispatchResult(d, hres),
                     !.calls = d.calls]
  /\ UNCHANGED <<senderVars, throttleVars, sessionVars, lockVars, readerVars,
                 routerVars, build_pc, managerVars>>

RouterNext ==
  \/ RouterRegister
  \/ RouterRouteMessage

RouterSpec == RouterInit /\ [][RouterNext]_vars

\* register_callback on the builder the caller holds: Ok gives the builder
\* back with the callback registered, Err drops it.
RegisterCallback ==
  /\ BuilderHeld(build_pc)
  /\ reg_calls < MaxRegs
  /\ \E path \in ManagerKeys :
       LET r == Register(routes, path, 1) IN
       /\ routes' = r.routes
       /\ reg_calls' = reg_calls + 1
       /\ build_pc' = IF r.result = "Ok" THEN build_pc ELSE "dropped"
       /\ last' = [NoEvent EXCEPT !.kind = "register", !.op = "register",
                     !.route = path, !.result = r.result, !.handler = 1]
  /\ UNCHANGED <<senderVars, throttleVars, sessionVars, lockVars, readerVars,
                 managerVars>>

\* build() is called: the router is moved into an Arc, the supervisor is
\* spawned and build sleeps.
BuildCalled ==
  /\ build_pc = "builder"
  /\ build_pc' = "sleeping"
  /\ sup_pc' = "connecting"
  /\ UNCHANGED <<senderVars, throttleVars, sessionVars, lockVars, readerVars,
                 routerVars,
                 epoch, taskVars, holder, conn_disp, disc_disp, last>>

\* The builder from WsClientBuilder::new through register_callback and build,
\* and the manager that build spawns.
BuilderNext ==
  \/ RegisterCallback
  \/ BuildCalled
  \/ Next

BuilderSpec == RouterInit /\ [][BuilderNext]_vars

\* --------------------------------------------------------------- Route alone
\* Topic strings of up to MaxLen tokens over the two delimiters and a piece of
\* text.
Alphabet == {PIPE, COLON, "a"}
Topics == UNION {[1..n -> Alphabet] : n \in 0..MaxLen}

\* Keys registered on the router the topic strings are dispatched to.
TopicKeys == {<<"a">>, <<"a", COLON, "a">>}

RouteInit ==
  /\ \E keys \in SUBSET TopicKeys :
       /\ routes = RegisterAll(EmptyRoutes, keys)
       /\ reg_calls = Cardinality(keys)
  /\ build_pc = "builder"
  /\ ManagerInit
  /\ last = NoEvent

\* Route::parse applied to a topic string, Route::to_string to the route it
\* returned and Route::parse to that text.
RouteParse ==
  /\ build_pc = "builder"
  /\ \E s \in Topics :
       LET p == Parse(s)
           t == IF p.ok THEN ToString(p.route) ELSE <<>>
       IN last' = [NoEvent EXCEPT !.kind = "parse", !.op = "parse", !.route = s,
                     !.result = IF p.ok THEN "Ok" ELSE p.err,
                     !.parsed = p, !.text = t,
                     !.reparsed = IF p.ok THEN Parse(t) ELSE p]
  /\ UNCHANGED <<senderVars, throttleVars, sessionVars, lockVars, readerVars,
                 routerVars, build_pc, managerVars>>

\* Router::route_message applied to a message with the topic string as route.
RouteDispatch ==
  /\ build_pc = "builder"
  /\ \E s \in Topics, hres \in {"Ok", "Err"} :
       LET d == RouteMessage(routes, Msg(s, "data")) IN
       /\ d.calls = <<>> => hres = "Ok"
       /\ last' = [NoEvent EXCEPT !.kind = "dispatch", !.op = "route_message",
                     !.route = s, !.result = DispatchResult(d, hres),
                     !.calls = d.calls]
  /\ UNCHANGED <<senderVars, throttleVars, sessionVars, lockVars, readerVars,
                 routerVars, build_pc, managerVars>>

RouteNext ==
  \/ RouteParse
  \/ RouteDispatch

RouteSpec == RouteInit /\ [][RouteNext]_vars

\* ------------------------------------------------------------ Client alone
\* Client::new() replaces whatever the caller held.
NewClient ==
  /\ call.pc \in {"idle", "returned"}
  /\ sess.variant # "Unauthenticated"
  /\ sess' = ClientNew
  /\ call' = [IdleCall EXCEPT !.op = "new", !.pc = "returned", !.result = "Ok"]
  /\ UNCHANGED <<senderVars, throttleVars, lockVars, readerVars, routerVars,
                 build_pc,
                 managerVars, last>>

\* login is called on the unauthenticated Client, which it consumes; the
\* sign-in request is sent.
LoginCalled ==
  /\ call.pc \in {"idle", "returned"}
  /\ sess.variant = "Unauthenticated"
  /\ \E d \in DeviceIds :
       call' = [IdleCall EXCEPT !.op = "login", !.pc = "exchange",
                                !.device_id = d, !.self = sess]
  /\ sess' = Moved
  /\ UNCHANGED <<senderVars, throttleVars, lockVars, readerVars, routerVars,
                 build_pc,
                 managerVars, last>>

\* send() on the sign-in request resolves: login returns an error, panics,
\* or builds authed_client and goes on to refresh.
LoginExchanged ==
  /\ call.op = "login"
  /\ call.pc = "exchange"
  /\ \E resp \in LoginResponses :
       LET x == Exchange(call.self, call.device_id, resp) IN
       call' = IF x.result = "Ok"
               THEN [call EXCEPT !.resp = resp, !.authed = x.client,
                                 !.pc = "refresh_me",
                                 !.sent = Append(@, "/auth/signin")]
               ELSE [call EXCEPT !.resp = resp, !.pc = "returned",
                                 !.result = x.result,
                                 !.sent = Append(@, "/auth/signin")]
  /\ UNCHANGED <<senderVars, throttleVars, sess, lockVars, readerVars,
                 routerVars,
                 build_pc, managerVars,
                 last>>

\* refresh: the /me request resolves; /orders/my is requested next whatever
\* the outcome.
RefreshMe ==
  /\ call.pc = "refresh_me"
  /\ \E r \in MeResponses :
       call' = [call EXCEPT !.me = r, !.pc = "refresh_orders",
                            !.sent = Append(@, "/me")]
  /\ UNCHANGED <<senderVars, throttleVars, sess, lockVars, readerVars,
                 routerVars,
                 build_pc, managerVars,
                 last>>

\* refresh: the /orders/my request resolves and refresh returns; login maps
\* its result and returns.
RefreshOrders ==
  /\ call.op = "login"
  /\ call.pc = "refresh_orders"
  /\ \E r \in OrdersResponses :
       LET l == LoginResult(Refresh(call.authed, call.me, r)) IN
       /\ call' = [call EXCEPT !.orders = r, !.pc = "returned",
                                !.result = l.result,
                                !.sent = Append(@, "/orders/my")]
       /\ sess' = l.client
  /\ UNCHANGED <<senderVars, throttleVars, lockVars, readerVars, routerVars,
                 build_pc,
                 managerVars, last>>

\* refresh is called on the authenticated Client the caller holds.
RefreshCalled ==
  /\ call.pc \in {"idle", "returned"}
  /\ IsAuthenticated(sess)
  /\ call' = [IdleCall EXCEPT !.op = "refresh", !.pc = "refresh_me"]
  /\ UNCHANGED <<senderVars, throttleVars, sess, lockVars, readerVars,
                 routerVars,
                 build_pc, managerVars,
                 last>>

\* refresh called by the caller: the /orders/my request resolves, the fields
\* are assigned if both fetches succeeded, and refresh returns.
RefreshReturns ==
  /\ call.op = "refresh"
  /\ call.pc = "refresh_orders"
  /\ \E r \in OrdersResponses :
       LET f == Refresh(sess, call.me, r) IN
       /\ call' = [call EXCEPT !.orders = r, !.pc = "returned",
                                !.result = f.result,
                                !.sent = Append(@, "/orders/my")]
       /\ sess' = f.client
  /\ UNCHANGED <<senderVars, throttleVars, lockVars, readerVars, routerVars,
                 build_pc,
                 managerVars, last>>

\* take_order is called on the authenticated Client and returns.
TakeOrderCalled ==
  /\ call.pc \in {"idle", "returned"}
  /\ IsAuthenticated(sess)
  /\ \E order \in ForeignOrders :
       LET t == TakeOrder(sess, order) IN
       call' = [IdleCall EXCEPT !.op = "take_order", !.pc = "returned",
                                !.arg = order, !.result = t.result,
                                !.value = t.order]
  /\ UNCHANGED <<senderVars, throttleVars, sess, lockVars, readerVars,
                 routerVars,
                 build_pc, managerVars,
                 last>>

\* get_items is called on a Client of either variant: a non-empty cache is
\* returned at once, otherwise /items is requested.
GetItemsCalled ==
  /\ call.pc \in {"idle", "returned"}
  /\ sess.variant \in {"Unauthenticated", "Authenticated"}
  /\ call' = IF sess.items_cache # <<>>
             THEN [IdleCall EXCEPT !.op = "get_items", !.pc = "returned",
                                   !.result = "Ok", !.items = sess.items_cache]
             ELSE [IdleCall EXCEPT !.op = "get_items", !.pc = "items"]
  /\ UNCHANGED <<senderVars, throttleVars, sess, lockVars, readerVars,
                 routerVars,
                 build_pc, managerVars,
                 last>>

\* get_items: the /items request resolves and the items or the error are
\* returned.
GetItemsReturns ==
  /\ call.op = "get_items"
  /\ call.pc = "items"
  /\ \E r \in ItemsResponses :
       LET a == CallApi(r) IN
       call' = [call EXCEPT !.pc = "returned",
                            !.result = IF a.err = "" THEN "Ok" ELSE a.err,
                            !.items = a.data.items,
                            !.reply = r,
                            !.sent = Append(@, "/items")]
  /\ UNCHANGED <<senderVars, throttleVars, sess, lockVars, readerVars,
                 routerVars,
                 build_pc, managerVars,
                 last>>

\* my_orders, update_order, create_order, close_order or delete_order is
\* called on the authenticated Client and reaches its call_api request.
OrderRequestCalled ==
  /\ call.pc \in {"idle", "returned"}
  /\ IsAuthenticated(sess)
  /\ \E op \in OrderRequests :
       call' = [IdleCall EXCEPT !.op = op, !.pc = "request"]
  /\ UNCHANGED <<senderVars, throttleVars, sess, lockVars, readerVars,
                 routerVars,
                 build_pc, managerVars, last>>

\* The request of such an operation resolves and the operation returns its
\* data or the error; the Client is only read.
OrderRequestReturns ==
  /\ call.op \in OrderRequests
  /\ call.pc = "request"
  /\ \E r \in OrdersResponses :
       LET a == CallApi(r) IN
       call' = [call EXCEPT !.pc = "returned",
                            !.result = IF a.err = "" THEN "Ok" ELSE a.err,
                            !.reply = r,
                            !.sent = Append(@, call.op)]
  /\ UNCHANGED <<senderVars, throttleVars, sess, lockVars, readerVars,
                 routerVars,
                 build_pc, managerVars, last>>

\* get_token, get_device_id or create_websocket is called on the
\* authenticated Client and
\* returns from the token and the device id it holds.
CredentialReadCalled ==
  /\ call.pc \in {"idle", "returned"}
  /\ IsAuthenticated(sess)
  /\ \E op \in CredentialReads :
       call' = [IdleCall EXCEPT
                  !.op = op, !.pc = "returned",
                  !.result = IF sess.token.some /\ sess.device_id.some
                             THEN "Ok" ELSE "panic"]
  /\ UNCHANGED <<senderVars, throttleVars, sess, lockVars, readerVars,
                 routerVars,
                 build_pc, managerVars, last>>

\* get_orders_top is called on a Client of either variant with filters and
\* reaches its call_api request.
GetOrdersTopCalled ==
  /\ call.pc \in {"idle", "returned"}
  /\ sess.variant \in {"Unauthenticated", "Authenticated"}
  /\ \E filters \in TopFilters :
       call' = [IdleCall EXCEPT !.op = "get_orders_top", !.pc = "top",
                                !.filters = filters]
  /\ UNCHANGED <<senderVars, throttleVars, sess, lockVars, readerVars,
                 routerVars,
                 build_pc, managerVars, last>>

\* get_orders_top: the request resolves, the orders are filtered and
\* returned.
GetOrdersTopReturns ==
  /\ call.op = "get_orders_top"
  /\ call.pc = "top"
  /\ \E r \in TopResponses :
       LET t == GetOrdersTop(CallApi(r), call.filters) IN
       call' = [call EXCEPT !.pc = "returned", !.result = t.result,
                            !.top = r, !.total = t.orders,
                            !.sent = Append(@, "/orders/item/top")]
  /\ UNCHANGED <<senderVars, throttleVars, sess, lockVars, readerVars,
                 routerVars,
                 build_pc, managerVars, last>>

LoginInit ==
  /\ routes = EmptyRoutes
  /\ reg_calls = 0
  /\ build_pc = "builder"
  /\ ManagerInit
  /\ last = NoEvent

LoginNext ==
  \/ NewClient
  \/ LoginCalled
  \/ LoginExchanged
  \/ RefreshMe
  \/ RefreshOrders

LoginSpec == LoginInit /\ [][LoginNext]_vars

\* The Client with the operations of its authenticated variant.
SessionNext ==
  \/ NewClient
  \/ LoginCalled
  \/ LoginExchanged
  \/ RefreshMe
  \/ RefreshOrders
  \/ RefreshCalled
  \/ RefreshReturns
  \/ TakeOrderCalled
  \/ GetItemsCalled
  \/ GetItemsReturns
  \/ GetOrdersTopCalled
  \/ GetOrdersTopReturns
  \/ OrderRequestCalled
  \/ OrderRequestReturns
  \/ CredentialReadCalled

SessionSpec == LoginInit /\ [][SessionNext]_vars

\* ------------------------------------------------------- call_api, throttled
\* A task calls call_api: the request is built and the task reaches
\* limiter.until_ready().await.
CallApiCalled(i) ==
  /\ tasks[i].pc = "not_called"
  /\ tasks' = [tasks EXCEPT ![i].pc = "until_ready"]
  /\ UNCHANGED <<senderVars, limiter, sessionVars, lockVars, readerVars,
                 routerVars,
                 build_pc, managerVars, last>>

\* until_ready resolves for a waiting task, which goes on to send().
CallApiUntilReady(i) ==
  /\ tasks[i].pc = "until_ready"
  /\ LET u == UntilReady(limiter) IN
       /\ u.outcome # "pending"
       /\ limiter' = u.limiter
       /\ tasks' = IF u.outcome = "ready"
                   THEN [tasks EXCEPT ![i].pc = "send"]
                   ELSE [tasks EXCEPT ![i] = [pc |-> "returned",
                                              result |-> "RateLimited"]]
  /\ UNCHANGED <<senderVars, sessionVars, lockVars, readerVars, routerVars,
                 build_pc,
                 managerVars, last>>

\* send() resolves and call_api returns the data or the error.
CallApiReturns(i) ==
  /\ tasks[i].pc = "send"
  /\ \E r \in ThrottledResponses :
       LET a == CallApi(r) IN
       tasks' = [tasks EXCEPT ![i] =
                   [pc |-> "returned",
                    result |-> IF a.err = "" THEN "Ok" ELSE a.err]]
  /\ UNCHANGED <<senderVars, limiter, sessionVars, lockVars, readerVars,
                 routerVars,
                 build_pc, managerVars, last>>

\* One replenish interval of the limiter's clock passes.
ReplenishInterval ==
  /\ limiter' = Replenish(limiter)
  /\ UNCHANGED <<senderVars, tasks, sessionVars, lockVars, readerVars,
                 routerVars,
                 build_pc, managerVars, last>>

ThrottleNext ==
  \/ \E i \in Invocations : CallApiCalled(i)
  \/ \E i \in Invocations : CallApiUntilReady(i)
  \/ \E i \in Invocations : CallApiReturns(i)
  \/ ReplenishInterval

\* ------------------------------------------- the Client and its limiter
\* limiter is the limiter field of the Client the caller holds, or of the
\* Client login is working on.

\* Client::new(): the Client is built with a limiter of its own.
ClientNewWithLimiter ==
  /\ call.pc \in {"idle", "returned"}
  /\ sess.variant # "Unauthenticated"
  /\ sess' = ClientNew
  /\ limiter' = BuildLimiter
  /\ call' = [IdleCall EXCEPT !.op = "new", !.pc = "returned", !.result = "Ok"]
  /\ UNCHANGED <<senderVars, tasks, lockVars, readerVars, routerVars, build_pc,
                 managerVars, last>>

\* login: self.http...send() on the sign-in request resolves; on success
\* authed_client is built with build_limiter(REQUESTS_PER_SECOND).
LoginSignInResolved ==
  /\ call.op = "login"
  /\ call.pc = "exchange"
  /\ \E resp \in LoginResponses :
       LET x == Exchange(call.self, call.device_id, resp) IN
       /\ call' = IF x.result = "Ok"
                  THEN [call EXCEPT !.resp = resp, !.authed = x.client,
                                    !.pc = "refresh_me",
                                    !.sent = Append(@, "/auth/signin")]
                  ELSE [call EXCEPT !.resp = resp, !.pc = "returned",
                                    !.result = x.result,
                                    !.sent = Append(@, "/auth/signin")]
       /\ limiter' = IF x.result = "Ok" THEN BuildLimiter ELSE limiter
  /\ UNCHANGED <<senderVars, tasks, sess, lockVars, readerVars, routerVars,
                 build_pc, managerVars, last>>

\* refresh inside login: call_api for /me passes until_ready and resolves.
LoginRefreshMe ==
  /\ call.op = "login"
  /\ call.pc = "refresh_me"
  /\ UntilReady(limiter).outcome = "ready"
  /\ limiter' = UntilReady(limiter).limiter
  /\ \E r \in MeResponses :
       call' = [call EXCEPT !.me = r, !.pc = "refresh_orders",
                            !.sent = Append(@, "/me")]
  /\ UNCHANGED <<senderVars, tasks, sess, lockVars, readerVars, routerVars,
                 build_pc, managerVars, last>>

\* refresh inside login: call_api for /orders/my passes until_ready and
\* resolves, refresh returns, and login maps its result and returns.
LoginRefreshOrders ==
  /\ call.op = "login"
  /\ call.pc = "refresh_orders"
  /\ UntilReady(limiter).outcome = "ready"
  /\ limiter' = UntilReady(limiter).limiter
  /\ \E r \in OrdersResponses :
       LET l == LoginResult(Refresh(call.authed, call.me, r)) IN
       /\ call' = [call EXCEPT !.orders = r, !.pc = "returned",
                                !.result = l.result,
                                !.sent = Append(@, "/orders/my")]
       /\ sess' = l.client
  /\ UNCHANGED <<senderVars, tasks, lockVars, readerVars, routerVars, build_pc,
                 managerVars, last>>

\* get_items with an empty cache: call_api for /items passes until_ready
\* and resolves.
GetItemsThroughLimiter ==
  /\ call.op = "get_items"
  /\ call.pc = "items"
  /\ UntilReady(limiter).outcome = "ready"
  /\ limiter' = UntilReady(limiter).limiter
  /\ \E r \in ItemsResponses :
       LET a == CallApi(r) IN
       call' = [call EXCEPT !.pc = "returned",
                            !.result = IF a.err = "" THEN "Ok" ELSE a.err,
                            !.items = a.data.items,
                            !.reply = r,
                            !.sent = Append(@, "/items")]
  /\ UNCHANGED <<senderVars, tasks, sess, lockVars, readerVars, routerVars,
                 build_pc, managerVars, last>>

LimiterNext ==
  \/ ClientNewWithLimiter
  \/ LoginCalled
  \/ LoginSignInResolved
  \/ LoginRefreshMe
  \/ LoginRefreshOrders
  \/ GetItemsCalled
  \/ GetItemsThroughLimiter
  \/ ReplenishInterval

LimiterSpec == LoginInit /\ [][LimiterNext]_vars

\* The tasks are scheduled fairly and the clock advances.
ThrottleSpec ==
  /\ LoginInit
  /\ [][ThrottleNext]_vars
  /\ WF_vars(ReplenishInterval)
  /\ \A i \in Invocations :
       WF_vars(CallApiUntilReady(i)) /\ WF_vars(CallApiReturns(i))


\* ------------------------------------------------------------------ claims
\* The parsed route of the message or send the last operation was about.
LastRoute == Parse(last.route)

\* The last operation concerned a topic the manager owns: the reserved
\* sign-in path or one of the internal lifecycle paths.
LastTopicIsManagerOwned ==
  /\ LastRoute.ok
  /\ BasePath(LastRoute.route) \in {SIGNIN, CONNECTED, DISCONNECTED, AUTH_CONNECTED}

\* The last operation was a send whose route send_request itself accepts.
LastSendIsWellFormed ==
  /\ last.kind = "send"
  /\ LastRoute.ok
  /\ LastRoute.route.protocol # <<"internal">>

\* C1: whenever the read task or the write task of an epoch fails or the
\* remote side closes, the epoch ends: the tasks are joined and the
\* disconnected message of that epoch is dispatched, whichever side failed.
C1_FailureEndsEpoch ==
  \A e \in Epochs :
    (wr_state[e] = "failed" \/ rd_state[e] \in {"closed", "failed"})
      ~> (disc_disp[e] = 1)

\* C2: after every failed connect attempt and after every epoch end the
\* supervisor goes to the backoff delay, and from the delay back to
\* connecting; the loop does not stop.
C2_SupervisorAlwaysReconnects ==
  [][/\ (sup_pc = "connecting" /\ sup_pc' # "connecting" /\ epoch' = epoch)
          => sup_pc' = "backoff"
     /\ (sup_pc = "open" /\ sup_pc' # "open") => sup_pc' = "backoff"
     /\ (sup_pc = "backoff" /\ sup_pc' # "backoff") => sup_pc' = "connecting"]_vars

\* C3: a dispatch whose caller handler returned Err leaves the manager
\* running: the supervisor has not stopped.
C3_HandlerErrorIsContained ==
  (last.kind = "dispatch" /\ last.result = "HandlerErr") => sup_pc # "panicked"

\* Epochs with a task that has not finished.
LiveEpochs ==
  {e \in Epochs : rd_state[e] = "running" \/ wr_state[e] = "running"}

\* C4: at most one epoch has running tasks, it is the newest one, and the
\* tasks of every earlier epoch were joined before the newest was created.
C4_AtMostOneLiveEpoch ==
  /\ Cardinality(LiveEpochs) <= 1
  /\ LiveEpochs \subseteq {epoch}
  /\ \A e \in Epochs :
       e < epoch => (rd_state[e] = "joined" /\ wr_state[e] = "joined")

\* C4 witness: a second epoch is open after the first one ended.
C4_Witness ==
  /\ epoch = 2
  /\ sup_pc = "open"
  /\ rd_state[2] = "running"
  /\ wr_state[2] = "running"
  /\ disc_disp[1] = 1

\* C5: a send of a well-formed message issued through the WsClient while no
\* epoch is open fails with NotConnected or ConnectionError and enqueues
\* nothing.
C5_SendWithoutEpochFailsFast ==
  (LastSendIsWellFormed /\ ~last.open)
    => (last.result \in {"NotConnected", "ConnectionError"} /\ ~last.enq)

\* C6: a send on a reserved or internal topic, issued through the WsClient
\* while an epoch is open, is rejected with ReservedPath and enqueues nothing.
C6_ManagerOwnedTopicsRejected ==
  (last.kind = "send" /\ last.open /\ LastTopicIsManagerOwned)
    => (last.result = "ReservedPath" /\ ~last.enq)

\* C7: the step that dispatches an epoch's connected message also enqueues
\* the sign-in request with the token and the device id on that epoch's
\* channel, and no read task runs in an epoch whose connected message has not
\* been dispatched.
C7_ConnectedThenSignIn ==
  [][\A e \in Epochs :
       /\ conn_disp'[e] # conn_disp[e]
            => \E i \in 1..Len(chan'[e]) : chan'[e][i] = AuthMsg
       /\ rd_state'[e] = "running" => conn_disp'[e] >= 1]_vars

\* C8: once build() has returned, the sender cell holds the sender of an
\* opened epoch.
C8_BuildReturnsConnected ==
  build_pc = "returned" => (holder # 0 /\ holder \in 1..epoch)

\* The last operation was the dispatch of a message whose base path is reserved.
LastDispatchWasReserved ==
  /\ last.kind = "dispatch"
  /\ LastRoute.ok
  /\ BasePath(LastRoute.route) = SIGNIN

\* C9 as stated: the dispatch of a message with a reserved base path invokes
\* no caller-registered handler.
C9_ReservedInvokesNoHandler ==
  LastDispatchWasReserved => last.calls = <<>>

\* C9 as amended: the dispatch of a message with a reserved base path invokes
\* no handler registered under the message's own exact key or base path and
\* hands the reserved message to no handler; the one handler it may invoke is
\* the one registered under internal/auth_connected, once, with the
\* synthesized auth_connected message, when the parameter is ok.
C9_ReservedReachesOnlyAuthConnected ==
  LastDispatchWasReserved =>
    /\ Len(last.calls) <= 1
    /\ \A i \in 1..Len(last.calls) :
         /\ last.calls[i].key = AUTH_CONNECTED
         /\ last.calls[i].msg = AuthConnectedMsg
         /\ last.calls[i].msg.route # last.route
         /\ LastRoute.route.parameter = Some(<<"ok">>)

\* C9 witness: a reserved message was dispatched while a handler is
\* registered under its exact key, and the auth_connected handler ran.
C9_Witness ==
  /\ LastDispatchWasReserved
  /\ FullPath(LastRoute.route) \in DOMAIN routes
  /\ last.calls # <<>>

\* C10: register on a key that has a handler returns AlreadyRegistered and
\* leaves the table as it was; no entry of the table is ever replaced or
\* removed, and a dispatch invokes the handler the table holds for the key.
C10_DuplicateRegistrationRejected ==
  [][/\ (reg_calls' # reg_calls /\ last'.route \in DOMAIN routes)
          => (last'.result = "AlreadyRegistered" /\ routes' = routes)
     /\ \A k \in DOMAIN routes : k \in DOMAIN routes' /\ routes'[k] = routes[k]
     /\ (last'.kind = "dispatch" /\ ~LastDispatchWasReserved')
          => \A i \in 1..Len(last'.calls) :
               /\ last'.calls[i].key \in DOMAIN routes
               /\ last'.calls[i].handler = routes[last'.calls[i].key]]_vars

\* C10 witness: a registration of another callback under a key that has one
\* was refused, and the table still holds the first callback.
C10_Witness ==
  /\ last.kind = "register"
  /\ last.result = "AlreadyRegistered"
  /\ last.route \in DOMAIN routes
  /\ routes[last.route] # last.handler

\* C11: register on a reserved path returns ReservedPath and leaves the table
\* as it was, whatever was registered before.
C11_ReservedRegistrationRejected ==
  [][(reg_calls' # reg_calls /\ last'.route = <<"cmd/auth/signIn">>)
       => (last'.result = "ReservedPath" /\ routes' = routes)]_vars

\* C11 witness: the reserved path was refused on a router that already holds
\* another registration.
C11_Witness ==
  /\ last.kind = "register"
  /\ last.route = <<"cmd/auth/signIn">>
  /\ last.result = "ReservedPath"
  /\ DOMAIN routes # {}

\* The last operation was the dispatch of a well-formed message whose base
\* path is not reserved.
LastDispatchWasOrdinary ==
  /\ last.kind = "dispatch"
  /\ LastRoute.ok
  /\ BasePath(LastRoute.route) # SIGNIN

\* C12: with handlers under both path:parameter and path, the dispatch of a
\* message with that path and parameter invokes the exact-key handler once
\* and not the bare-path handler.
C12_ExactKeyPreferred ==
  (/\ LastDispatchWasOrdinary
   /\ LastRoute.route.parameter.some
   /\ FullPath(LastRoute.route) \in DOMAIN routes
   /\ BasePath(LastRoute.route) \in DOMAIN routes)
    => /\ Len(last.calls) = 1
       /\ last.calls[1].key = FullPath(LastRoute.route)
       /\ last.calls[1].handler = routes[FullPath(LastRoute.route)]

\* C12 witness: both handlers are registered, with different callbacks, and a
\* message with the parameter was dispatched.
C12_Witness ==
  /\ LastDispatchWasOrdinary
  /\ LastRoute.route.parameter.some
  /\ FullPath(LastRoute.route) \in DOMAIN routes
  /\ BasePath(LastRoute.route) \in DOMAIN routes
  /\ routes[FullPath(LastRoute.route)] # routes[BasePath(LastRoute.route)]
  /\ last.calls # <<>>

\* C13: with a handler under the bare path only, the dispatch of a message
\* carrying any parameter on that path invokes that handler once, with the
\* message and the parsed route including the parameter.
C13_BarePathFallback ==
  (/\ LastDispatchWasOrdinary
   /\ LastRoute.route.parameter.some
   /\ FullPath(LastRoute.route) \notin DOMAIN routes
   /\ BasePath(LastRoute.route) \in DOMAIN routes)
    => /\ Len(last.calls) = 1
       /\ last.calls[1].key = BasePath(LastRoute.route)
       /\ last.calls[1].handler = routes[BasePath(LastRoute.route)]
       /\ last.calls[1].msg.route = last.route
       /\ last.calls[1].route = LastRoute.route

\* C13 witness: the bare-path handler ran for a message with a parameter
\* that has no handler of its own.
C13_Witness ==
  /\ LastDispatchWasOrdinary
  /\ LastRoute.route.parameter = Some(<<"created">>)
  /\ DOMAIN routes = {ORDERS_NEW}
  /\ Len(last.calls) = 1

\* C14: the dispatch of a well-formed, non-reserved topic with no handler
\* under its exact key or its base path returns Ok and invokes no handler,
\* and a dispatch never changes the handler table.
C14_UnmatchedIsDropped ==
  [][(reg_calls' = reg_calls /\ last'.kind = "dispatch")
       => /\ routes' = routes
          /\ (/\ LastDispatchWasOrdinary'
              /\ FullPath(LastRoute.route)' \notin DOMAIN routes
              /\ BasePath(LastRoute.route)' \notin DOMAIN routes)
               => (last'.result = "Ok" /\ last'.calls = <<>>)]_vars

\* C14 witness: a message was dropped by a router that holds a handler for
\* another topic.
C14_Witness ==
  /\ LastDispatchWasOrdinary
  /\ FullPath(LastRoute.route) \notin DOMAIN routes
  /\ BasePath(LastRoute.route) \notin DOMAIN routes
  /\ DOMAIN routes # {}
  /\ last.result = "Ok"
  /\ last.calls = <<>>

\* C18: for every topic string holding the protocol delimiter, to_string of
\* the parsed route is the string again and parsing that text gives the same
\* route.
C18_RouteRoundTrip ==
  (last.kind = "parse" /\ \E i \in 1..Len(last.route) : last.route[i] = PIPE)
    => /\ last.parsed.ok
       /\ last.text = last.route
       /\ last.reparsed = last.parsed

\* C18 witness: a topic with empty protocol and empty path whose parameter
\* holds further delimiters was parsed, printed and parsed again.
C18_Witness ==
  /\ last.kind = "parse"
  /\ last.route = <<PIPE, COLON, PIPE, COLON>>
  /\ last.parsed.route.protocol = <<>>
  /\ last.parsed.route.path = <<>>
  /\ last.parsed.route.parameter = Some(<<PIPE, COLON>>)
  /\ last.reparsed.ok

\* C19: parse of a string without the protocol delimiter returns InvalidPath
\* carrying the string, and route_message of a message with such a route
\* returns that error and invokes no handler.
C19_NoDelimiterIsInvalidPath ==
  (\A i \in 1..Len(last.route) : last.route[i] # PIPE)
    => /\ last.kind = "parse"
            => /\ ~last.parsed.ok
               /\ last.parsed.err = "InvalidPath"
               /\ last.parsed.detail = last.route
       /\ last.kind = "dispatch"
            => (last.result = "InvalidPath" /\ last.calls = <<>>)

\* C19 witness: a message whose route is, letter for letter, a registered key
\* but lacks the protocol delimiter was refused.
C19_Witness ==
  /\ last.kind = "dispatch"
  /\ last.route = <<"a", COLON, "a">>
  /\ last.route \in DOMAIN routes
  /\ last.result = "InvalidPath"

\* queue is an initial piece of longer.
IsPrefix(queue, longer) ==
  /\ Len(queue) <= Len(longer)
  /\ SubSeq(longer, 1, Len(queue)) = queue

\* C15: within an epoch every socket write takes the oldest queued message
\* and removes it, and every enqueue goes behind the messages already queued;
\* so the socket sees the messages in enqueue order, each at most once.
C15_WritesInEnqueueOrder ==
  [][\A e \in Epochs :
       /\ (written'[e] # written[e] /\ written'[e] # <<>>)
            => /\ chan[e] # <<>>
               /\ written'[e] = Append(written[e], Head(chan[e]))
               /\ chan'[e] = Tail(chan[e])
       /\ (written'[e] = written[e] /\ chan'[e] # chan[e] /\ chan'[e] # <<>>)
            => IsPrefix(chan[e], chan'[e])]_vars

\* C15 witness: the sign-in request and a caller's message, queued in that
\* order, have both been written to the socket of one epoch.
C15_Witness ==
  \E e \in Epochs :
    /\ Len(written[e]) = 2
    /\ written[e][1] = AuthMsg
    /\ written[e][2].payload = "from-caller"

\* C16: within an epoch the read task enters the dispatch of the oldest
\* waiting frame only, frames arrive behind the waiting ones, and no dispatch
\* is entered while another has not returned.
C16_DispatchInArrivalOrder ==
  [][\A e \in Epochs :
       /\ Len(busy'[e]) <= 1
       /\ Len(busy'[e]) > Len(busy[e])
            => /\ inbox[e] # <<>>
               /\ busy'[e] = Append(busy[e], Head(inbox[e]))
               /\ inbox'[e] = Tail(inbox[e])
       /\ Len(inbox'[e]) > Len(inbox[e]) => IsPrefix(inbox[e], inbox'[e])]_vars

\* C16 witness: the dispatch of one frame is under way while a different
\* frame, arrived after it, waits on the same socket.
C16_Witness ==
  \E e \in Epochs :
    /\ rd_state[e] = "running"
    /\ Len(busy[e]) = 1
    /\ inbox[e] # <<>>
    /\ Head(inbox[e]) # busy[e][1]

\* C17: no WsClient call waits for the supervisor, the writer or the
\* socket.  The supervisor never keeps the sender_holder mutex across a
\* suspension point, so whoever holds it is a caller in its critical
\* section; that caller can finish and release at once, whatever the tasks
\* and the supervisor are doing, and a waiting caller gets a free mutex.
C17_SendNeverBlocks ==
  /\ mutex \in Callers \cup {"free"}
  /\ \A c \in Callers :
       /\ mutex = c => pending[c].pc = "holding"
       /\ pending[c].pc = "holding" => (mutex = c /\ ENABLED SendReturns(c))
       /\ (pending[c].pc = "waiting" /\ mutex = "free"
           /\ (holder # 0 /\ rx_alive[holder] => HasRoom(holder)))
            => ENABLED SendLocks(c)

\* C17 witness: one caller is inside its critical section and another waits
\* for the mutex while the supervisor is about to reconnect.
C17_Witness ==
  /\ mutex = "caller1"
  /\ pending["caller1"].pc = "holding"
  /\ pending["caller2"].pc = "waiting"
  /\ sup_pc = "connecting"
  /\ epoch >= 1

\* The sign-in request was answered with a body naming a user.
LoginExchangeSucceeded(c) == c.resp.kind = "response" /\ c.resp.body.kind = "auth"

\* The Authorization header of the answer is text long enough to cut.
LoginHeaderExtracted(c) == c.resp.header.kind = "text" /\ Len(c.resp.header.val) >= 4

\* C20: when login returns after an exchange that succeeded and a refresh in
\* which the profile fetch or the order fetch failed, it returns
\* AuthError::Unknown and the caller holds no authenticated Client; and the
\* caller comes to hold an authenticated Client only by a login whose
\* exchange, header extraction and both fetches succeeded.
C20_LoginAllOrNothing ==
  [][/\ (call'.op = "login" /\ call'.pc = "returned" /\ call.pc # "returned"
         /\ LoginExchangeSucceeded(call') /\ LoginHeaderExtracted(call')
         /\ (call'.me.kind # "data" \/ call'.orders.kind # "data"))
          => (call'.result = "Unknown" /\ sess'.variant # "Authenticated")
     /\ (sess'.variant = "Authenticated" /\ sess.variant # "Authenticated")
          => /\ call'.op = "login" /\ call'.pc = "returned" /\ call'.result = "Ok"
             /\ LoginExchangeSucceeded(call') /\ LoginHeaderExtracted(call')
             /\ call'.me.kind = "data" /\ call'.orders.kind = "data"]_vars

\* C20 witness: login has returned Unknown after the exchange succeeded, the
\* profile was fetched and the order fetch failed; the caller holds nothing.
C20_Witness ==
  /\ call.op = "login"
  /\ call.pc = "returned"
  /\ LoginExchangeSucceeded(call)
  /\ LoginHeaderExtracted(call)
  /\ call.me.kind = "data"
  /\ call.orders.kind = "no_response"
  /\ call.result = "Unknown"
  /\ sess.variant = "Moved"

\* The Authorization header is text made of the scheme prefix "JWT " and a
\* token.
HeaderIsSchemeAndToken(h) ==
  /\ h.kind = "text"
  /\ Len(h.val) > 4
  /\ SubSeq(h.val, 1, 4) = <<"J", "W", "T", " ">>

\* C21: once the sign-in request has resolved, a network failure makes login
\* return Unknown, a body that cannot be read or deserialized makes it return
\* ParsingError, a header that is absent, not text or not the scheme prefix
\* followed by a token makes it return ParsingError, and login never panics.
C21_LoginFailuresAreErrors ==
  (call.op = "login" /\ call.resp.kind # "none")
    => /\ call.result # "panic"
       /\ call.resp.kind = "no_response"
            => (call.pc = "returned" /\ call.result = "Unknown")
       /\ (call.resp.kind = "response" /\ call.resp.body.kind # "auth")
            => (call.pc = "returned" /\ call.result = "ParsingError")
       /\ (call.resp.kind = "response" /\ call.resp.body.kind = "auth"
           /\ ~HeaderIsSchemeAndToken(call.resp.header))
            => (call.pc = "returned" /\ call.result = "ParsingError")

\* C22: a refresh returns Ok exactly when both fetches succeeded, and then
\* the cached profile and the cached order list are both the fetched ones;
\* when a fetch failed it returns the error of a failed fetch and the Client
\* is as it was; and no other step of a refresh changes the Client.
C22_RefreshIsAtomic ==
  [][(call'.op = "refresh" /\ call.op = "refresh")
       => IF call'.pc = "returned" /\ call.pc # "returned"
          THEN IF call'.me.kind = "data" /\ call'.orders.kind = "data"
               THEN /\ call'.result = "Ok"
                    /\ sess'.user = SomeUser(call'.me.user)
                    /\ sess'.orders = call'.orders.orders
               ELSE /\ call'.result \in
                         {CallApi(r).err : r \in {call'.me, call'.orders}} \ {""}
                    /\ sess' = sess
          ELSE sess' = sess]_vars

\* C22 witness: a refresh has returned an error after the order list was
\* fetched and the profile fetch failed, on a Client whose cached order list
\* differs from the fetched one.
C22_Witness ==
  /\ call.op = "refresh"
  /\ call.pc = "returned"
  /\ call.orders.kind = "data"
  /\ call.me.kind # "data"
  /\ call.result # "Ok"
  /\ sess.orders # call.orders.orders

\* C23: take_order returns the order it was given, as Owned, exactly when
\* the order's id is in the Client's cached order list, and Unauthorized
\* otherwise; it sends no request and leaves the Client as it was.
C23_TakeOrderChecksCache ==
  [][(call'.op = "take_order" /\ call' # call)
       => LET cached == \E i \in 1..Len(sess.orders) : sess.orders[i] = call'.arg.id
          IN /\ call'.pc = "returned"
             /\ cached => /\ call'.result = "Ok"
                          /\ call'.value = [call'.arg EXCEPT !.state = "Owned"]
             /\ ~cached => call'.result = "Unauthorized"
             /\ call'.sent = <<>>
             /\ sess' = sess]_vars

\* C23 witness: take_order was refused for an order whose id is not among
\* the two orders the last refresh cached.
C23_Witness ==
  /\ call.op = "take_order"
  /\ call.result = "Unauthorized"
  /\ call.arg.id = "o3"
  /\ sess.orders = <<"o1", "o2">>

\* C24: when get_items has returned a non-empty list and is called again on
\* the same Client, the second call returns that list at once and sends no
\* request.
C24_ItemsServedFromCache ==
  [][(/\ call.op = "get_items" /\ call.pc = "returned" /\ call.result = "Ok"
      /\ call.items # <<>>
      /\ call'.op = "get_items" /\ call' # call)
       => /\ call'.pc = "returned"
          /\ call'.sent = <<>>
          /\ call'.items = call.items]_vars

\* No waiting invocation leaves until_ready other than to send its request,
\* and no invocation returns anything but what its response determines.
NoInvocationIsRejected ==
  /\ [][\A i \in Invocations :
          tasks[i].pc = "until_ready"
            => tasks'[i].pc \in {"until_ready", "send"}]_vars
  /\ [](\A i \in Invocations :
          tasks[i].result \in {"", "Ok", "RequestError"})

\* Every invocation that waits at until_ready goes on to send its request.
EveryInvocationProceeds ==
  \A i \in Invocations : (tasks[i].pc = "until_ready") ~> (tasks[i].pc = "send")

C26_FailuresMapToDistinctErrors ==
  (call.op = "get_items" /\ call.pc = "returned" /\ call.sent # <<>>)
    => /\ call.reply.kind = "no_response" => call.result = "RequestError"
       /\ call.reply.kind = "garbage" => call.result = "ParsingError"
       /\ call.reply.kind = "envelope" => call.result = "WFMError"
       /\ call.reply.kind = "data" => call.result = "Ok"

\* C27: an operation of the authenticated variant is only ever begun on a
\* Client that is authenticated, and a Client becomes authenticated only by
\* a login that returns Ok.
C27_AuthenticatedOpsAreGated ==
  [][/\ (call' # call /\ call.pc \in {"idle", "returned"}
           /\ call'.op \in AuthenticatedOps)
          => (sess.variant = "Authenticated" /\ sess' = sess)
     /\ (sess.variant # "Authenticated" /\ sess'.variant = "Authenticated")
          => (/\ call.op = "login"
              /\ call'.op = "login"
              /\ call'.pc = "returned"
              /\ call'.result = "Ok")
     /\ (call' # call /\ call'.op \in AuthenticatedOps)
          => sess'.variant = "Authenticated"]_vars

\* C27 witness: after a successful login, delete_order has run on the
\* authenticated Client.
C27_Witness ==
  /\ call.op = "delete_order"
  /\ call.pc = "returned"
  /\ sess.variant = "Authenticated"

\* C28: once build() has been called, no step of the supervisor, the read
\* task, the write task, a dispatch or a WsClient call changes the handler
\* table, in any epoch.
C28_TableFixedAfterBuild ==
  [][build_pc # "builder" => routes' = routes]_vars

\* C28 witness: with a registered handler, a second epoch is open after
\* build() returned and a message has been dispatched to a handler.
C28_Witness ==
  /\ build_pc = "returned"
  /\ epoch = 2
  /\ reg_calls > 0
  /\ last.kind = "dispatch"
  /\ last.calls # <<>>

\* The ids of the orders of one side of a response whose user has the
\* status s, in the order of the response; all of them when all is TRUE.
RECURSIVE IdsWith(_, _, _)
IdsWith(side, all, s) ==
  IF side = <<>> THEN <<>>
  ELSE (IF all \/ Head(side).status = s THEN <<Head(side).id>> ELSE <<>>)
         \o IdsWith(Tail(side), all, s)

\* C29: get_orders_top returns the buy orders of the response followed by
\* its sell orders: all of them when no user_activity filter is given, and
\* exactly those whose user has the status s when user_activity is Some(s).
C29_TopOrdersFiltered ==
  (call.op = "get_orders_top" /\ call.pc = "returned" /\ call.result = "Ok")
    => LET all == ~call.filters.some \/ ~call.filters.user_activity.some
           s == call.filters.user_activity.val
       IN call.total = IdsWith(call.top.buy, all, s)
                         \o IdsWith(call.top.sell, all, s)

\* With a user_activity filter the orders returned are those of that status,
\* buy orders first.
TopOrdersFilteredByStatus ==
  (/\ call.op = "get_orders_top" /\ call.pc = "returned" /\ call.result = "Ok"
   /\ call.filters.some /\ call.filters.user_activity.some)
    => call.total = IdsWith(call.top.buy, FALSE, call.filters.user_activity.val)
                      \o IdsWith(call.top.sell, FALSE,
                                 call.filters.user_activity.val)

\* C30: when handle_text_message returns for a text frame that is no JSON
\* message, the result is InvalidMessageReceived, no handler was invoked and
\* nothing was sent, and the read task, the supervisor and the epoch are as
\* before; a frame that is neither Text nor Close is consumed with no effect
\* at all; and an idle read task with a frame waiting can take it.
C30_InvalidFramesAreSkipped ==
  /\ [][\A e \in Epochs :
          /\ (/\ rd_state[e] = "running"
              /\ busy[e] # <<>> /\ busy'[e] = <<>>
              /\ ~busy[e][1].json)
               => /\ last'.kind = "dispatch"
                  /\ last'.result = "InvalidMessageReceived"
                  /\ last'.calls = <<>>
                  /\ ~last'.enq
                  /\ rd_state'[e] = "running"
                  /\ UNCHANGED <<sup_pc, epoch, rd_state, wr_state, abort,
                                 rx_alive, chan, written, holder, conn_disp,
                                 disc_disp, inbox, routes>>
          /\ (/\ rd_state[e] = "running"
              /\ inbox[e] # <<>> /\ Head(inbox[e]).frame # "text"
              /\ inbox'[e] = Tail(inbox[e]))
               => /\ rd_state'[e] = "running"
                  /\ UNCHANGED <<sup_pc, epoch, rd_state, wr_state, abort,
                                 rx_alive, chan, written, holder, conn_disp,
                                 disc_disp, busy, last, routes>>]_vars
  /\ [](\A e \in Epochs :
          (rd_state[e] = "running" /\ busy[e] = <<>> /\ inbox[e] # <<>>)
            => ENABLED (ReadNextText \/ ReadNextOther))

\* C30 witness: after a text frame that is no JSON message was refused, the
\* read task of the same open epoch is dispatching the next frame, a valid
\* one, and a ping waits behind it.
C30_Witness ==
  /\ last.result = "InvalidMessageReceived"
  /\ sup_pc = "open"
  /\ rd_state[epoch] = "running"
  /\ Len(busy[epoch]) = 1
  /\ busy[epoch][1].json
  /\ inbox[epoch] # <<>>
  /\ Head(inbox[epoch]).frame = "ping"

\* C31: the dispatch of a message with base path cmd/auth/signIn invokes, when
\* the parameter is ok and a handler is registered under
\* internal/auth_connected, that handler once with the synthesized
\* @internal|internal/auth_connected message, and returns Ok or that
\* handler's error; with any other parameter or none, or with no such
\* handler, it invokes nothing and returns Ok.
C31_SignInAcknowledgement ==
  LastDispatchWasReserved
    => IF /\ LastRoute.route.parameter = Some(<<"ok">>)
          /\ AUTH_CONNECTED \in DOMAIN routes
       THEN /\ Len(last.calls) = 1
            /\ last.calls[1].key = AUTH_CONNECTED
            /\ last.calls[1].handler = routes[AUTH_CONNECTED]
            /\ last.calls[1].msg = AuthConnectedMsg
            /\ last.result \in {"Ok", "HandlerErr"}
       ELSE /\ last.calls = <<>>
            /\ last.result = "Ok"

\* C31 witness: with handlers under internal/auth_connected and another key,
\* the sign-in acknowledgement was dispatched and the handler returned Err.
C31_Witness ==
  /\ LastDispatchWasReserved
  /\ LastRoute.route.parameter = Some(<<"ok">>)
  /\ AUTH_CONNECTED \in DOMAIN routes
  /\ Cardinality(DOMAIN routes) = 2
  /\ last.result = "HandlerErr"

\* C32: the manager's connected and disconnected dispatches alternate,
\* starting with connected: every opened epoch has one connected dispatch,
\* every epoch before the newest has one disconnected dispatch after it, and
\* no epoch has more; a failed connect attempt dispatches neither; and the
\* disconnected dispatch of an epoch is made when both of its tasks have
\* stopped and the supervisor has not yet gone to the backoff delay.
C32_LifecycleEventsAlternate ==
  /\ [](\A e \in Epochs :
          /\ conn_disp[e] = (IF e <= epoch THEN 1 ELSE 0)
          /\ disc_disp[e] <= conn_disp[e]
          /\ e < epoch => disc_disp[e] = 1)
  /\ [][/\ \A e \in Epochs :
             /\ conn_disp'[e] # conn_disp[e]
                  => /\ sup_pc = "connecting"
                     /\ e = epoch + 1
                     /\ disc_disp' = disc_disp
             /\ disc_disp'[e] # disc_disp[e]
                  => /\ e = epoch
                     /\ rd_state[e] \in {"closed", "failed"}
                     /\ wr_state[e] \in {"failed", "aborted"}
                     /\ sup_pc = "open"
                     /\ sup_pc' # "connecting"
                     /\ conn_disp' = conn_disp
        /\ (sup_pc = "connecting" /\ sup_pc' = "backoff")
             => (conn_disp' = conn_disp /\ disc_disp' = disc_disp)]_vars

\* C32 witness: the second epoch is open after a failed connect attempt: the
\* first epoch has had its connected and its disconnected dispatch and the
\* second its connected dispatch.
C32_Witness ==
  /\ epoch = 2
  /\ sup_pc = "open"
  /\ conn_disp[1] = 1 /\ disc_disp[1] = 1
  /\ conn_disp[2] = 1 /\ disc_disp[2] = 0

\* C33: the first message written to the socket of an epoch is the
\* cmd/auth/signIn request of that epoch, whoever else enqueues.
C33_SignInIsFirstFrame ==
  \A e \in Epochs : written[e] # <<>> => written[e][1] = AuthMsg

\* Epoch e has ended: both of its tasks have been joined.
EpochEnded(e) == rd_state[e] = "joined" /\ wr_state[e] = "joined"

\* C34: a message sent through a sender obtained in epoch k is queued and
\* written in epoch k only; a send on the sender of an ended epoch returns
\* SendError and queues nothing; and while an epoch is open the cell holds
\* that epoch's sender.
C34_SenderBoundToEpoch ==
  /\ [](\A e \in Epochs :
          /\ \A i \in 1..Len(written[e]) :
               written[e][i].payload \in {<<"from-sender", k>> : k \in Epochs}
                 => written[e][i].payload = <<"from-sender", e>>
          /\ \A i \in 1..Len(chan[e]) :
               chan[e][i].payload \in {<<"from-sender", k>> : k \in Epochs}
                 => chan[e][i].payload = <<"from-sender", e>>)
  /\ [][(last' # last /\ last'.op = "sender_send" /\ EpochEnded(last'.sender))
          => (last'.result = "SendError" /\ chan' = chan)]_vars
  /\ [](sup_pc = "open" => holder = epoch)

\* C34 witness: the caller holds the sender of the first epoch, the second
\* epoch is open with the new sender in the cell, and a send on the old
\* sender has just returned SendError.
C34_Witness ==
  /\ snapshot = 1
  /\ epoch = 2
  /\ sup_pc = "open"
  /\ holder = 2
  /\ last.op = "sender_send"
  /\ last.sender = 1
  /\ last.result = "SendError"

\* C35: the dispatch of an inbound frame invokes no handler registered for
\* internal/connected or internal/disconnected, and the handler registered
\* for internal/auth_connected only for the sign-in acknowledgement.
C35_LifecycleHandlersNotSpoofable ==
  (last.kind = "dispatch" /\ last.op = "inbound")
    => \A i \in 1..Len(last.calls) :
         /\ last.calls[i].key \notin {CONNECTED, DISCONNECTED}
         /\ last.calls[i].key = AUTH_CONNECTED
              => (LastRoute.ok /\ FullPath(LastRoute.route) = SIGNIN \o <<COLON, "ok">>)


\* Topics the remote side can name in a frame: those of RouterMsgs and, for
\* every key register is offered, the topic that spells that key.
InboundTopics ==
  RouterMsgs \cup {Msg(<<"@wfm", PIPE>> \o k, "data") : k \in RegisterKeys}

\* The text of a handler key before its first ':'.
KeyBasePath(k) ==
  IF Find(k, COLON) # 0 THEN SubSeq(k, 1, Find(k, COLON) - 1) ELSE k

\* route_message invokes the handler stored under k for some inbound topic.
KeyIsReachable(table, k) ==
  \E m \in InboundTopics :
    \E i \in 1..Len(RouteMessage(table, m).calls) :
      /\ RouteMessage(table, m).calls[i].key = k
      /\ RouteMessage(table, m).calls[i].handler = table[k]

\* C36: every key in the handler table is reachable, that is, some inbound
\* topic makes route_message invoke the handler stored under it, and no key
\* in the table has a reserved base path.
C36_EveryKeyIsReachable ==
  \A k \in DOMAIN routes :
    /\ KeyIsReachable(routes, k)
    /\ ~IsPathReserved(KeyBasePath(k))


\* C37: an authenticated Client always holds a token and a device id; they
\* are the values login established (the sign-in header from its fifth
\* byte on, and the device id login was given), no later operation changes
\* them, and get_token, get_device_id and create_websocket never abort.
C37_CredentialsPresentAndFixed ==
  /\ [](sess.variant = "Authenticated"
          => sess.token.some /\ sess.device_id.some)
  /\ [](call.op \in {"get_token", "get_device_id", "create_websocket"}
          => call.result = "Ok")
  /\ [][/\ (sess.variant = "Authenticated" /\ sess'.variant = "Authenticated")
             => (sess'.token = sess.token /\ sess'.device_id = sess.device_id)
        /\ (sess.variant # "Authenticated" /\ sess'.variant = "Authenticated")
             => /\ call.op = "login"
                /\ sess'.token = Some(SubSeq(call.resp.header.val, 5,
                                             Len(call.resp.header.val)))
                /\ sess'.device_id = Some(<<call.device_id>>)]_vars

\* After a login and a refresh that replaced the cached orders, the
\* credentials are read and are still those of the login.
C37_Witness ==
  /\ sess.variant = "Authenticated"
  /\ sess.token = Some(<<"t2">>)
  /\ sess.device_id.some
  /\ sess.orders # <<>>
  /\ call.op = "create_websocket"
  /\ call.result = "Ok"


\* The HTTP requests of call_api each take a cell of the Client's limiter.
CallApiRequestsAreThrottled ==
  [][(Len(call'.sent) = Len(call.sent) + 1 /\ call.pc # "exchange")
       => /\ UntilReady(limiter).outcome = "ready"
          /\ limiter' = UntilReady(limiter).limiter]_vars

\* C38: every HTTP request a Client issues, the sign-in request of login
\* included, is preceded by an acquire on the Client's limiter, and the
\* limiter's state is carried across login: while login runs it changes
\* only by an acquire or by the passing of time.
C38_EveryRequestIsThrottled ==
  [][/\ Len(call'.sent) = Len(call.sent) + 1
          => /\ UntilReady(limiter).outcome = "ready"
             /\ limiter' = UntilReady(limiter).limiter
     /\ (call.op = "login" /\ call'.op = "login")
          => limiter' \in {limiter, UntilReady(limiter).limiter,
                           Replenish(limiter)}]_vars

====
